---- MODULE Spec2Model ----
(***************************************************************************)
(* State-machine model of the Ontographia SD Studio diagram editor:        *)
(* the canvas component (components/SDCanvas.js) and the studio page       *)
(* that owns the diagram, the selection, the pending placement and the     *)
(* undo history (pages/studio.js).                                         *)
(*                                                                         *)
(* Every React event handler is one atomic action.  A handler reads the    *)
(* state of the render it was created in (the unprimed variables) and its  *)
(* state updates take effect together (the primed variables).  A handler   *)
(* that calls onModelChange several times passes each call a model built   *)
(* from the same closed-over `model`, and pushHistory slices the history   *)
(* with the same closed-over `historyIndex`.                               *)
(*                                                                         *)
(* Nullable state is a sequence of length 0 (null) or 1 (the value).       *)
(*                                                                         *)
(* Environment: one pointer with one button in use at a time (a press,     *)
(* click or double-click happens only while no gesture is in progress);    *)
(* keys are pressed at any time, also in the middle of a gesture.  The     *)
(* Math.random() suffix of a node id never repeats; Date.now() does not    *)
(* decrease and may return the same millisecond twice.  An absent width    *)
(* or height of a node is 0.                                               *)
(*                                                                         *)
(* Several specifications share the actions: Spec (the editing session),   *)
(* SpecModes (every interaction mode, short runs), SpecHist (a long run    *)
(* of single changes with undo and redo) and one per feature further down. *)
(***************************************************************************)
EXTENDS Integers, Sequences, FiniteSets, TLC

VARIABLES
  \* pages/studio.js
  model,              \* [elements, connections]: the current Diagram
  selectedElement,    \* null or [elementType, id, type]
  pendingPlacement,   \* null or a node type
  history,            \* sequence of JSON snapshots
  historyIndex,       \* 0-based cursor into history, -1 when empty
  \* components/SDCanvas.js
  pan, zoom,
  isPanning, panStart,
  dragging, dragTarget,
  draggingCurve,
  drawingConnection,
  resizing,
  editingLabel,
  connectionPopup,
  draggingEndpoint,
  clipboard,
  justPanned, didPanMove,
  readOnly,
  \* environment
  now,                \* last value returned by Date.now()
  rndSeq,             \* number of Math.random() suffixes drawn so far (none repeats)
  \* limits and counters of the explored runs
  maxChanges,         \* the run makes at most this many onModelChange calls
  maxNodes,           \* the run stops adding nodes at this many
  changes,            \* onModelChange calls made so far
  wheelEvents,        \* wheel events handled so far
  \* lib/storage.js and the page state it feeds
  localStorage,       \* [models, current]: the two keys of the browser store
  savedModels,        \* the list shown by the page
  notification,       \* null or [message, type]
  rendered,           \* null or what the canvas last computed for drawing or export
  gesturePushes       \* history pushes made so far by the pointer gesture in progress

studioVars == <<model, selectedElement, pendingPlacement, history, historyIndex, changes>>
viewVars   == <<pan, zoom>>
panVars    == <<isPanning, panStart, justPanned, didPanMove>>
modeVars   == <<dragging, dragTarget, draggingCurve, drawingConnection, resizing,
                editingLabel, connectionPopup, draggingEndpoint>>
envVars    == <<now, rndSeq>>
limitVars  == <<maxChanges, maxNodes, readOnly>>
storageVars == <<localStorage, savedModels, notification>>
\* What no handler of the canvas editing session changes
runVars    == <<limitVars, wheelEvents, storageVars, rendered>>
vars == <<studioVars, viewVars, panVars, modeVars, clipboard, envVars, runVars,
          gesturePushes>>

----------------------------------------------------------------------------
\* Bounds of the explored runs

MaxChanges == 2       \* onModelChange calls per run of Spec
MaxModeChanges == 1   \* onModelChange calls per run of SpecModes
MaxHistChanges == 53  \* onModelChange calls per run of SpecHist
MaxNodes == 3         \* nodes in a diagram of Spec
MaxConns == 2         \* edges in a diagram of Spec
MaxClock == 1         \* Date.now() ranges over 1..MaxClock
MaxPan == 0           \* |pan.x|, |pan.y| stay within this
MaxIdChanges == 3     \* onModelChange calls per run of SpecIds
MaxCurveChanges == 3  \* onModelChange calls per run of SpecCurve
MaxDenominator == 1000 \* denominators of zoom and pan in SpecWheel
MaxWheelPan == 400    \* |pan.x|, |pan.y| in SpecWheel
MaxWheel == 3         \* wheel events per run of SpecWheel
MaxStorageChanges == 1 \* onModelChange calls per run of SpecStorage
MaxRandom == 3        \* random suffixes drawn per run of SpecStorage
MaxExportNodes == 2   \* nodes of an exported diagram in SpecExport
MaxAnchorChanges == 1 \* onModelChange calls per run of SpecAnchor

\* Program constants
HISTORY_LIMIT == 50
POPUP_CURVE == 50
RENDER_DEFAULT_CURVE == 80
DROP_DX == 60
DROP_DY == 40
PASTE_OFFSET == 30

null == <<>>
Some(v) == <<v>>

Min(a, b) == IF a < b THEN a ELSE b
Max(a, b) == IF a > b THEN a ELSE b
Abs(a) == IF a < 0 THEN -a ELSE a

\* Screen positions the pointer takes
Points == { [x |-> 0, y |-> 0], [x |-> 55, y |-> 30], [x |-> 300, y |-> 200] }

\* containerRef.current.getBoundingClientRect()
rect == [left |-> 0, top |-> 0, width |-> 800, height |-> 600]

ConnTypes == {"positive", "negative", "neutral"}
Corners == {"se", "sw", "ne", "nw"}
Labels == {"X"}

\* ELEMENT_TYPES[type].shape
Shape(type) ==
  CASE type = "variable" -> "text"
    [] type = "stock" -> "rect"
    [] type = "flow" -> "valve"
    [] type = "converter" -> "circle"
    [] type = "cloud" -> "cloud"
    [] type = "loop_r" -> "loop"
    [] type = "loop_b" -> "loop"
    [] OTHER -> "text"

\* ELEMENT_PALETTE / LOOP_MARKERS: name of a type
PaletteName(type) ==
  CASE type = "variable" -> "Variable"
    [] type = "stock" -> "Stock"
    [] type = "flow" -> "Flow"
    [] type = "converter" -> "Auxiliary"
    [] type = "cloud" -> "Cloud"
    [] type = "loop_r" -> "Reinforcing"
    [] type = "loop_b" -> "Balancing"
    [] OTHER -> "New Element"

\* Types placed through the single-letter shortcuts and palette buttons modelled (R)
ShortcutTypes == {"loop_r"}

\* diagramType of the studio page
diagramType == "cld"

----------------------------------------------------------------------------
\* Array helpers

\* Array.prototype.find: index of the first element satisfying P, 0 if none
FindIndex(s, P(_)) ==
  IF \E i \in 1..Len(s) : P(s[i])
    THEN CHOOSE i \in 1..Len(s) : P(s[i]) /\ \A j \in 1..(i - 1) : ~P(s[j])
    ELSE 0

\* Array.prototype.filter
Filter(s, P(_)) == SelectSeq(s, P)

\* Array.prototype.map
Map(s, F(_)) == [i \in 1..Len(s) |-> F(s[i])]

\* Array.prototype.slice(0, end) for end >= 0
SliceTo(s, end) == SubSeq(s, 1, Min(end, Len(s)))

\* Array.prototype.slice(-n)
SliceLast(s, n) == SubSeq(s, Max(1, Len(s) - n + 1), Len(s))

ElementIndex(m, id) == FindIndex(m.elements, LAMBDA el : el.id = id)
ConnIndex(m, id) == FindIndex(m.connections, LAMBDA c : c.id = id)
NodeIds(m) == { m.elements[i].id : i \in 1..Len(m.elements) }
ConnIds(m) == { m.connections[i].id : i \in 1..Len(m.connections) }

----------------------------------------------------------------------------
\* Geometry

\* screenToCanvas: (screen - rect origin - pan) / zoom
ScreenToCanvas(sx, sy) ==
  [x |-> ((sx - rect.left - pan.x) * zoom.d) \div zoom.n,
   y |-> ((sy - rect.top - pan.y) * zoom.d) \div zoom.n]

\* Dimensions used by renderElement (`el.width || 100`: 0 stands for an absent width)
RenderDims(el) ==
  LET shape == Shape(el.type) IN
  IF shape = "text" /\ el.width = 0 THEN [w |-> 80, h |-> 24]
  ELSE IF shape = "valve" /\ el.width = 0 THEN [w |-> 40, h |-> 34]
  ELSE IF shape = "loop" /\ el.width = 0 THEN [w |-> 44, h |-> 44]
  ELSE IF shape = "cloud" /\ el.width = 0 THEN [w |-> 50, h |-> 36]
  ELSE [w |-> IF el.width = 0 THEN 100 ELSE el.width,
        h |-> IF el.height = 0 THEN 44 ELSE el.height]

\* Dimensions used by getClosestAnchor (it also has a circle default)
AnchorDims(el) ==
  LET shape == Shape(el.type) IN
  IF shape = "circle" /\ el.width = 0 THEN [w |-> 40, h |-> 40]
  ELSE RenderDims(el)

\* Default start size of handleResizeStart
ResizeDefaults(el) ==
  LET shape == Shape(el.type) IN
  IF shape = "text" THEN [w |-> 80, h |-> 24]
  ELSE IF shape = "valve" THEN [w |-> 40, h |-> 34]
  ELSE IF shape = "loop" THEN [w |-> 40, h |-> 40]
  ELSE IF shape = "cloud" THEN [w |-> 50, h |-> 36]
  ELSE [w |-> 100, h |-> 44]

\* getClosestAnchor: the sides in the order of Object.entries(anchors).
\* Distances are compared squared and doubled (half sizes stay integral).
AnchorOrder == <<"top", "bottom", "left", "right">>
AnchorDist2(el, side, px, py) ==
  LET d == AnchorDims(el)
      ax == CASE side = "left" -> 2 * el.x - d.w
              [] side = "right" -> 2 * el.x + d.w
              [] OTHER -> 2 * el.x
      ay == CASE side = "top" -> 2 * el.y - d.h
              [] side = "bottom" -> 2 * el.y + d.h
              [] OTHER -> 2 * el.y
  IN (2 * px - ax) * (2 * px - ax) + (2 * py - ay) * (2 * py - ay)
\* Variant: a side as near as the nearest so far replaces it
Nearer_OrEqual(dist, minDist) == minDist < 0 \/ dist <= minDist

\* `dist < minDist` of the loop; minDist = -1 stands for Infinity
Nearer(dist, minDist) == minDist < 0 \/ dist < minDist

\* The loop of getClosestAnchor from side number i on
RECURSIVE ClosestFrom(_, _, _, _, _, _)
ClosestFrom(el, px, py, i, closest, minDist) ==
  IF i > Len(AnchorOrder) THEN closest
  ELSE LET dist == AnchorDist2(el, AnchorOrder[i], px, py)
       IN IF Nearer(dist, minDist)
            THEN ClosestFrom(el, px, py, i + 1, AnchorOrder[i], dist)
            ELSE ClosestFrom(el, px, py, i + 1, closest, minDist)

getClosestAnchor(el, px, py) == ClosestFrom(el, px, py, 1, "right", -1)

\* The drop-target search of handleMouseMove: first node other than `selfId`
\* whose centre is within 60 x 40 of (x, y); null if none
DropTarget(m, selfId, x, y) ==
  LET i == FindIndex(m.elements, LAMBDA el :
             el.id # selfId /\ Abs(el.x - x) < DROP_DX /\ Abs(el.y - y) < DROP_DY)
  IN IF i = 0 THEN null ELSE Some(m.elements[i].id)

\* p1/q1 <= p2/q2 for naturals with q1, q2 > 0, by comparing continued
\* fractions (no product is formed, so nothing exceeds the integer width)
RECURSIVE FracLeq(_, _, _, _)
FracLeq(p1, q1, p2, q2) ==
  LET i1 == p1 \div q1
      i2 == p2 \div q2
      r1 == p1 % q1
      r2 == p2 % q2
  IN IF i1 # i2 THEN i1 < i2
     ELSE IF r1 = 0 THEN TRUE
     ELSE IF r2 = 0 THEN FALSE
     ELSE FracLeq(q2, r2, q1, r1)

\* a * sqrt(l2) <= b for integers a, b and l2 > 0
MulSqrtLeq(a, l2, b) ==
  IF a <= 0 /\ b >= 0 THEN TRUE
  ELSE IF a > 0 /\ b <= 0 THEN FALSE
  ELSE IF a > 0 THEN FracLeq(a * a, b, b, l2)
  ELSE FracLeq(-b, l2, a * a, -b)

\* floor(sqrt(n)) for 0 <= n < 2^22, by bisection of lo..hi
RECURSIVE IsqrtIn(_, _, _)
IsqrtIn(n, lo, hi) ==
  IF lo = hi THEN lo
  ELSE LET mid == (lo + hi + 1) \div 2
       IN IF mid * mid <= n THEN IsqrtIn(n, mid, hi) ELSE IsqrtIn(n, lo, mid - 1)
Isqrt(n) == IsqrtIn(n, 0, 2047)

\* Math.round(n / sqrt(l2)) for l2 > 0: the k with (2k-1) sqrt(l2) <= 2n < (2k+1) sqrt(l2)
RoundQuot(n, l2) ==
  LET s == Isqrt(l2)
      lo == Abs(n) \div (s + 1) - 1
      hi == Abs(n) \div s + 1
      range == IF n >= 0 THEN lo..hi ELSE (-hi)..(-lo)
  IN CHOOSE k \in range :
       /\ MulSqrtLeq(2 * k - 1, l2, 2 * n)
       /\ ~MulSqrtLeq(2 * k + 1, l2, 2 * n)

\* The curve computed by handleMouseMove for edge c and canvas position pos
\* (`len = sqrt(...) || 1`: coincident centres give perp = (0, 0) and curve 0)
CurveAt(source, target, pos) ==
  LET dx == target.x - source.x
      dy == target.y - source.y
      l2 == dx * dx + dy * dy
      ox2 == 2 * pos.x - (source.x + target.x)
      oy2 == 2 * pos.y - (source.y + target.y)
      n2 == ox2 * (-dy) + oy2 * dx          \* twice the numerator
      curve == IF l2 = 0 THEN 0 ELSE RoundQuot(n2, 4 * l2)
  IN Max(-200, Min(200, curve))

\* DOM hit test of a node body: the pointer is inside the node's box
HitsBody(el, c) ==
  LET d == RenderDims(el) IN
  /\ 2 * Abs(c.x - el.x) <= d.w
  /\ 2 * Abs(c.y - el.y) <= d.h

\* DOM hit test of the 8 x 8 resize handle at a corner
HitsResizeHandle(el, corner, c) ==
  LET d == RenderDims(el)
      rx == 2 * (c.x - el.x)
      ry == 2 * (c.y - el.y)
      inE == rx >= d.w + 4 /\ rx <= d.w + 20
      inW == rx >= -d.w - 20 /\ rx <= -d.w - 4
      inS == ry >= d.h + 4 /\ ry <= d.h + 20
      inN == ry >= -d.h - 20 /\ ry <= -d.h - 4
  IN CASE corner = "se" -> inE /\ inS
       [] corner = "sw" -> inW /\ inS
       [] corner = "ne" -> inE /\ inN
       [] OTHER -> inW /\ inN

----------------------------------------------------------------------------
\* Studio page: history and model mutation

\* JSON.stringify / JSON.parse of a model snapshot
JSONstringify(m) == <<"json", m.elements, m.connections>>
JSONparse(s) == [elements |-> s[2], connections |-> s[3]]

\* Variant: the first 50 entries are kept
pushHistory_KeepOldest(prev, idx, newModel) ==
  SliceTo(Append(SliceTo(prev, idx + 1), JSONstringify(newModel)), HISTORY_LIMIT)
\* pushHistory: the updater passed to setHistory
pushHistory(prev, idx, newModel) ==
  SliceLast(Append(SliceTo(prev, idx + 1), JSONstringify(newModel)), HISTORY_LIMIT)

\* The history after a handler called onModelChange with each model of `calls`
RECURSIVE PushAll(_, _, _)
PushAll(prev, idx, calls) ==
  IF calls = <<>> THEN prev
  ELSE PushAll(pushHistory(prev, idx, Head(calls)), idx, Tail(calls))

\* handleModelChange applied to every onModelChange call of one handler
Commit(calls) ==
  /\ model' = IF calls = <<>> THEN model ELSE calls[Len(calls)]
  /\ history' = PushAll(history, historyIndex, calls)
  /\ historyIndex' = historyIndex + Len(calls)
  /\ changes' = changes + Len(calls)
  /\ changes' <= maxChanges

\* Variant: only edges leaving the node are removed
DeleteNode_SourceOnly(m, id) ==
  [m EXCEPT !.elements = Filter(m.elements, LAMBDA el : el.id # id),
            !.connections = Filter(m.connections, LAMBDA c : c.source # id)]
\* The two delete mutations (canvas handleKeyDown, studio handleDeleteSelected)
DeleteNode(m, id) ==
  [m EXCEPT !.elements = Filter(m.elements, LAMBDA el : el.id # id),
            !.connections = Filter(m.connections, LAMBDA c : c.source # id /\ c.target # id)]
DeleteEdge(m, id) ==
  [m EXCEPT !.connections = Filter(m.connections, LAMBDA c : c.id # id)]

NodeSelection(el) == Some([elementType |-> "node", id |-> el.id, type |-> el.type])
EdgeSelection(c) == Some([elementType |-> "edge", id |-> c.id, type |-> c.type])

\* `el-${Date.now()}-${Math.random()...}` and `conn-${Date.now()}`
ElementId(t, r) == <<"el", t, r>>
ConnId(t) == <<"conn", t>>

\* newElement of handleAddElement
NewElement(t, r, type, pos) ==
  [id |-> ElementId(t, r), type |-> type, label |-> PaletteName(type),
   x |-> pos.x, y |-> pos.y, width |-> 0, height |-> 0]

\* newConn of the canvas handleCreateConnection
NewConn(t, popup, type) ==
  [id |-> ConnId(t), source |-> popup.sourceId, target |-> popup.targetId,
   type |-> type, curve |-> POPUP_CURVE,
   sourceAnchor |-> popup.sourceAnchor, targetAnchor |-> popup.targetAnchor]

\* Variant: source and target exchanged
NewPopup_Swapped(sourceId, targetId, targetEl) ==
  [sourceId |-> targetId, targetId |-> sourceId,
   sourceAnchor |-> "auto", targetAnchor |-> "auto",
   x |-> rect.left + pan.x + (targetEl.x * zoom.n) \div zoom.d,
   y |-> rect.top + pan.y + (targetEl.y * zoom.n) \div zoom.d - 40]
\* The popup opened by handleMouseUp
NewPopup(sourceId, targetId, targetEl) ==
  [sourceId |-> sourceId, targetId |-> targetId,
   sourceAnchor |-> "auto", targetAnchor |-> "auto",
   x |-> rect.left + pan.x + (targetEl.x * zoom.n) \div zoom.d,
   y |-> rect.top + pan.y + (targetEl.y * zoom.n) \div zoom.d - 40]

----------------------------------------------------------------------------
\* Initial state: the page after a diagram has been loaded

InitModel ==
  [elements |-> <<
     [id |-> ElementId(0, 0), type |-> "stock", label |-> "Stock",
      x |-> 0, y |-> 0, width |-> 0, height |-> 0],
     [id |-> ElementId(0, 1), type |-> "stock", label |-> "Stock",
      x |-> 300, y |-> 200, width |-> 0, height |-> 0] >>,
   connections |-> <<
     [id |-> ConnId(0), source |-> ElementId(0, 0), target |-> ElementId(0, 1),
      type |-> "positive", curve |-> POPUP_CURVE,
      sourceAnchor |-> "auto", targetAnchor |-> "auto"] >>]

\* Everything but the view and the readOnly prop
InitSession ==
  /\ pendingPlacement = null
  /\ history = <<>>
  /\ historyIndex = -1
  /\ isPanning = FALSE
  /\ panStart = [x |-> 0, y |-> 0]
  /\ dragging = null
  /\ dragTarget = null
  /\ draggingCurve = null
  /\ drawingConnection = null
  /\ resizing = null
  /\ editingLabel = null
  /\ connectionPopup = null
  /\ draggingEndpoint = null
  /\ clipboard = null
  /\ justPanned = FALSE
  /\ didPanMove = FALSE
  /\ now = 1
  /\ rndSeq = 0
  /\ changes = 0
  /\ gesturePushes = 0
  /\ wheelEvents = 0
  /\ rendered = null

\* The page's canvas: studio.js never passes readOnly, so the default applies
InitRest ==
  /\ InitSession
  /\ readOnly = FALSE

\* Nothing stored, nothing notified
InitStorageIdle ==
  /\ localStorage = [models |-> <<>>, current |-> null]
  /\ savedModels = <<>>
  /\ notification = null

InitCommon ==
  /\ InitRest
  /\ InitStorageIdle
  /\ pan = [x |-> 0, y |-> 0]
  /\ zoom = [n |-> 1, d |-> 1]

Init ==
  /\ InitCommon
  /\ model = InitModel
  /\ selectedElement = null
  /\ maxChanges = MaxChanges
  /\ maxNodes = MaxNodes

----------------------------------------------------------------------------
\* Canvas: pointer-down handlers

\* The node whose body receives a pointer event at canvas position c: the
\* last-rendered (topmost) node containing c; 0 if the background is hit
TopNodeAt(m, c) ==
  IF \E i \in 1..Len(m.elements) : HitsBody(m.elements[i], c)
    THEN CHOOSE i \in 1..Len(m.elements) :
           /\ HitsBody(m.elements[i], c)
           /\ \A j \in (i + 1)..Len(m.elements) : ~HitsBody(m.elements[j], c)
    ELSE 0

\* renderConnection returns null unless both end nodes exist
Rendered(m, c) == ElementIndex(m, c.source) # 0 /\ ElementIndex(m, c.target) # 0

IsSelected(id) == selectedElement # null /\ selectedElement[1].id = id

\* handlePanStart: mousedown on the canvas background
PanStart(p, button) ==
  /\ TopNodeAt(model, ScreenToCanvas(p.x, p.y)) = 0
  /\ ~(pendingPlacement # null /\ button = 0)
  /\ button \in {0, 1}
  /\ isPanning' = TRUE
  /\ panStart' = [x |-> p.x - pan.x, y |-> p.y - pan.y]
  /\ didPanMove' = FALSE
  /\ gesturePushes' = 0
  /\ UNCHANGED <<studioVars, viewVars, justPanned, modeVars, clipboard, envVars,
                 runVars>>

\* handleElementMouseDown: mousedown on a node body
ElementMouseDown(p) ==
  LET c == ScreenToCanvas(p.x, p.y)
      i == TopNodeAt(model, c)
      el == model.elements[i]
  IN /\ i # 0
     /\ ~readOnly
     /\ dragging' = Some([id |-> el.id, startX |-> el.x, startY |-> el.y,
                          offsetX |-> c.x - el.x, offsetY |-> c.y - el.y])
     /\ selectedElement' = NodeSelection(el)
     /\ gesturePushes' = 0
     /\ UNCHANGED <<model, pendingPlacement, history, historyIndex, changes, viewVars, panVars,
                    dragTarget, draggingCurve, drawingConnection, resizing, editingLabel,
                    connectionPopup, draggingEndpoint, clipboard, envVars, runVars>>

\* handleEdgeDragStart: mousedown on a connection handle of the selected node
EdgeDragStart(i, p) ==
  LET c == ScreenToCanvas(p.x, p.y)
      el == model.elements[i]
  IN /\ IsSelected(el.id)
     /\ ~readOnly
     /\ drawingConnection' = Some([sourceId |-> el.id, startX |-> el.x, startY |-> el.y,
                                   currentX |-> c.x, currentY |-> c.y])
     /\ gesturePushes' = 0
     /\ UNCHANGED <<studioVars, viewVars, panVars, dragging, dragTarget, draggingCurve,
                    resizing, editingLabel, connectionPopup, draggingEndpoint, clipboard,
                    envVars, runVars>>

\* handleResizeStart: mousedown on a corner handle of the selected node
ResizeStart(i, corner, p) ==
  LET c == ScreenToCanvas(p.x, p.y)
      el == model.elements[i]
      def == ResizeDefaults(el)
  IN /\ IsSelected(el.id)
     /\ ~readOnly
     /\ Shape(el.type) # "loop"
     /\ HitsResizeHandle(el, corner, c)
     /\ resizing' = Some([id |-> el.id, corner |-> corner, startX |-> c.x, startY |-> c.y,
                          startWidth |-> IF el.width = 0 THEN def.w ELSE el.width,
                          startHeight |-> IF el.height = 0 THEN def.h ELSE el.height])
     /\ gesturePushes' = 0
     /\ UNCHANGED <<studioVars, viewVars, panVars, dragging, dragTarget, draggingCurve,
                    drawingConnection, editingLabel, connectionPopup, draggingEndpoint,
                    clipboard, envVars, runVars>>

\* handleConnectionMouseDown: mousedown on the hit path of an edge
ConnectionMouseDown(k) ==
  LET conn == model.connections[k]
  IN /\ Rendered(model, conn)
     /\ ~readOnly
     /\ draggingCurve' = Some([id |-> conn.id])
     /\ gesturePushes' = 0
     /\ UNCHANGED <<studioVars, viewVars, panVars, dragging, dragTarget,
                    drawingConnection, resizing, editingLabel, connectionPopup,
                    draggingEndpoint, clipboard, envVars, runVars>>

\* handleConnectionClick: click on the hit path of an edge
ConnectionClick(k) ==
  LET conn == model.connections[k]
  IN /\ Rendered(model, conn)
     /\ selectedElement' = EdgeSelection(conn)
     /\ UNCHANGED <<model, pendingPlacement, history, historyIndex, changes, viewVars, panVars,
                    modeVars, clipboard, envVars, runVars, gesturePushes>>

\* handleEndpointDragStart: mousedown on an endpoint handle of the selected edge
EndpointDragStart(k, endpoint, p) ==
  LET c == ScreenToCanvas(p.x, p.y)
      conn == model.connections[k]
  IN /\ Rendered(model, conn)
     /\ IsSelected(conn.id)
     /\ ~readOnly
     /\ draggingEndpoint' = Some([connId |-> conn.id, endpoint |-> endpoint,
                                  x |-> c.x, y |-> c.y])
     /\ gesturePushes' = 0
     /\ UNCHANGED <<studioVars, viewVars, panVars, dragging, dragTarget, draggingCurve,
                    drawingConnection, resizing, editingLabel, connectionPopup,
                    clipboard, envVars, runVars>>

----------------------------------------------------------------------------
\* Canvas: the model mutations built by the pointer handlers

MoveNode(m, id, x, y) ==
  [m EXCEPT !.elements = Map(m.elements, LAMBDA el :
     IF el.id = id THEN [el EXCEPT !.x = x, !.y = y] ELSE el)]

SetCurve(m, id, curve) ==
  [m EXCEPT !.connections = Map(m.connections, LAMBDA c :
     IF c.id = id THEN [c EXCEPT !.curve = curve] ELSE c)]

ResizeNode(m, id, w, h) ==
  [m EXCEPT !.elements = Map(m.elements, LAMBDA el :
     IF el.id = id THEN [el EXCEPT !.width = w, !.height = h] ELSE el)]

SetAnchor(m, id, endpoint, anchor) ==
  [m EXCEPT !.connections = Map(m.connections, LAMBDA c :
     IF c.id = id
       THEN IF endpoint = "source" THEN [c EXCEPT !.sourceAnchor = anchor]
                                   ELSE [c EXCEPT !.targetAnchor = anchor]
       ELSE c)]

SetLabel(m, id, label) ==
  [m EXCEPT !.elements = Map(m.elements, LAMBDA el :
     IF el.id = id THEN [el EXCEPT !.label = label] ELSE el)]

AddElement(m, el) == [m EXCEPT !.elements = Append(m.elements, el)]
AddConnection(m, conn) == [m EXCEPT !.connections = Append(m.connections, conn)]

\* Width and height computed by the resize branch of handleMouseMove
ResizedWidth(r, c) ==
  LET deltaX == c.x - r.startX
      e == r.corner \in {"se", "ne"}
      w == r.corner \in {"sw", "nw"}
  IN IF w THEN Max(60, r.startWidth - deltaX * 2)
     ELSE IF e THEN Max(60, r.startWidth + deltaX * 2)
     ELSE r.startWidth
ResizedHeight(r, c) ==
  LET deltaY == c.y - r.startY
      s == r.corner \in {"se", "sw"}
      n == r.corner \in {"ne", "nw"}
  IN IF n THEN Max(30, r.startHeight - deltaY * 2)
     ELSE IF s THEN Max(30, r.startHeight + deltaY * 2)
     ELSE r.startHeight

\* onModelChange calls of the drag, curve and resize parts of handleMouseMove
DragCalls(c) ==
  IF dragging = null THEN <<>>
  ELSE <<MoveNode(model, dragging[1].id, c.x - dragging[1].offsetX, c.y - dragging[1].offsetY)>>

CurveCalls(c) ==
  IF draggingCurve = null THEN <<>>
  ELSE LET k == ConnIndex(model, draggingCurve[1].id) IN
       IF k = 0 THEN <<>>
       ELSE LET conn == model.connections[k]
                si == ElementIndex(model, conn.source)
                ti == ElementIndex(model, conn.target)
            IN IF si = 0 \/ ti = 0 THEN <<>>
               ELSE <<SetCurve(model, draggingCurve[1].id,
                               CurveAt(model.elements[si], model.elements[ti], c))>>

ResizeCalls(c) ==
  IF resizing = null THEN <<>>
  ELSE IF ElementIndex(model, resizing[1].id) = 0 THEN <<>>
  ELSE <<ResizeNode(model, resizing[1].id, ResizedWidth(resizing[1], c),
                    ResizedHeight(resizing[1], c))>>

CountPushes(calls) == gesturePushes' = gesturePushes + Len(calls)

GestureActive ==
  \/ isPanning
  \/ dragging # null
  \/ draggingCurve # null
  \/ drawingConnection # null
  \/ draggingEndpoint # null
  \/ resizing # null

\* handleMouseMove
MouseMove(p) ==
  LET c == ScreenToCanvas(p.x, p.y) IN
  /\ GestureActive
  /\ IF isPanning THEN
       /\ Abs(p.x - panStart.x) <= MaxPan
       /\ Abs(p.y - panStart.y) <= MaxPan
       /\ pan' = [x |-> p.x - panStart.x, y |-> p.y - panStart.y]
       /\ didPanMove' = TRUE
       /\ UNCHANGED <<studioVars, zoom, isPanning, panStart, justPanned, modeVars,
                      gesturePushes>>
     ELSE IF draggingEndpoint # null THEN
       /\ draggingEndpoint' = Some([draggingEndpoint[1] EXCEPT !.x = c.x, !.y = c.y])
       /\ UNCHANGED <<studioVars, viewVars, panVars, dragging, dragTarget, draggingCurve,
                      drawingConnection, resizing, editingLabel, connectionPopup,
                      gesturePushes>>
     ELSE IF drawingConnection # null THEN
       /\ dragTarget' = DropTarget(model, drawingConnection[1].sourceId, c.x, c.y)
       /\ drawingConnection' = Some([drawingConnection[1] EXCEPT !.currentX = c.x,
                                                                !.currentY = c.y])
       /\ UNCHANGED <<studioVars, viewVars, panVars, dragging, draggingCurve, resizing,
                      editingLabel, connectionPopup, draggingEndpoint, gesturePushes>>
     ELSE
       LET calls == DragCalls(c) \o CurveCalls(c) \o ResizeCalls(c) IN
       /\ dragTarget' = IF dragging = null THEN dragTarget
                        ELSE DropTarget(model, dragging[1].id,
                                        c.x - dragging[1].offsetX, c.y - dragging[1].offsetY)
       /\ Commit(calls)
       /\ CountPushes(calls)
       /\ UNCHANGED <<selectedElement, pendingPlacement, viewVars, panVars, dragging,
                      draggingCurve, drawingConnection, resizing, editingLabel,
                      connectionPopup, draggingEndpoint>>
  /\ UNCHANGED <<clipboard, envVars, runVars>>

\* Variant: the dropped node stays where it was dragged
DropRevert_Keep(m, d) == m
\* The model committed when a node is dropped on a target: the dragged node
\* back at its drag-start position
DropRevert(m, d) == MoveNode(m, d.id, d.startX, d.startY)

\* handleMouseUp, bound to both onMouseUp and onMouseLeave of the container
HandleMouseUp ==
  /\ GestureActive
  /\ IF draggingEndpoint # null THEN
       LET de == draggingEndpoint[1]
           k == ConnIndex(model, de.connId)
           conn == model.connections[k]
           elementId == IF de.endpoint = "source" THEN conn.source ELSE conn.target
           i == ElementIndex(model, elementId)
           calls == IF k = 0 THEN <<>>
                    ELSE IF i = 0 THEN <<>>
                    ELSE <<SetAnchor(model, conn.id, de.endpoint,
                                     getClosestAnchor(model.elements[i], de.x, de.y))>>
       IN /\ Commit(calls)
          /\ draggingEndpoint' = null
          /\ UNCHANGED <<selectedElement, pendingPlacement, viewVars, panVars, dragging,
                         dragTarget, draggingCurve, drawingConnection, resizing,
                         editingLabel, connectionPopup>>
     ELSE IF drawingConnection # null /\ dragTarget # null THEN
       LET si == ElementIndex(model, drawingConnection[1].sourceId)
           ti == ElementIndex(model, dragTarget[1])
       IN /\ connectionPopup' =
               IF si # 0 /\ ti # 0
                 THEN Some(NewPopup(drawingConnection[1].sourceId, dragTarget[1],
                                    model.elements[ti]))
                 ELSE connectionPopup
          /\ drawingConnection' = null
          /\ dragTarget' = null
          /\ UNCHANGED <<studioVars, viewVars, panVars, dragging, draggingCurve, resizing,
                         editingLabel, draggingEndpoint>>
     ELSE IF drawingConnection # null THEN
       /\ drawingConnection' = null
       /\ dragTarget' = null
       /\ UNCHANGED <<studioVars, viewVars, panVars, dragging, draggingCurve, resizing,
                      editingLabel, connectionPopup, draggingEndpoint>>
     ELSE
       LET drop == dragging # null /\ dragTarget # null
           si == ElementIndex(model, dragging[1].id)
           ti == ElementIndex(model, dragTarget[1])
           found == drop /\ si # 0 /\ ti # 0
           calls == IF found
                      THEN <<DropRevert(model, dragging[1])>>
                      ELSE <<>>
       IN /\ Commit(calls)
          /\ connectionPopup' =
               IF found THEN Some(NewPopup(dragging[1].id, dragTarget[1], model.elements[ti]))
                        ELSE connectionPopup
          /\ justPanned' = IF isPanning /\ didPanMove THEN TRUE ELSE justPanned
          /\ isPanning' = FALSE
          /\ dragging' = null
          /\ dragTarget' = null
          /\ draggingCurve' = null
          /\ resizing' = null
          /\ draggingEndpoint' = null
          /\ UNCHANGED <<selectedElement, pendingPlacement, viewVars, panStart, didPanMove,
                         drawingConnection, editingLabel>>
  /\ gesturePushes' = 0
  /\ UNCHANGED <<clipboard, envVars, runVars>>

MouseUp == HandleMouseUp
MouseLeave == HandleMouseUp

----------------------------------------------------------------------------
\* Canvas: click, double-click, label editor, popup

\* handleAddElement of the studio page (onAddElement)
HandleAddElement(pos, elementType) ==
  LET type == IF elementType # null THEN elementType[1]
              ELSE IF pendingPlacement # null THEN pendingPlacement[1]
              ELSE IF diagramType = "cld" THEN "variable" ELSE "stock"
  IN \E t \in now..MaxClock :
       /\ Len(model.elements) < maxNodes
       /\ now' = t
       /\ rndSeq' = rndSeq + 1
       /\ Commit(<<AddElement(model, NewElement(t, rndSeq, type, pos))>>)
       /\ pendingPlacement' = null

\* handleCanvasClick: click on the canvas background
CanvasClick(p) ==
  LET c == ScreenToCanvas(p.x, p.y) IN
  /\ TopNodeAt(model, c) = 0
  /\ IF justPanned THEN
       /\ justPanned' = FALSE
       /\ UNCHANGED <<studioVars, connectionPopup, envVars>>
     ELSE IF connectionPopup # null THEN
       /\ connectionPopup' = null
       /\ UNCHANGED <<studioVars, justPanned, envVars>>
     ELSE IF pendingPlacement # null THEN
       /\ HandleAddElement(c, null)
       /\ UNCHANGED <<selectedElement, justPanned, connectionPopup>>
     ELSE
       /\ selectedElement' = null
       /\ UNCHANGED <<model, pendingPlacement, history, historyIndex, changes, justPanned,
                      connectionPopup, envVars>>
  /\ UNCHANGED <<viewVars, isPanning, panStart, didPanMove, dragging, dragTarget,
                 draggingCurve, drawingConnection, resizing, editingLabel,
                 draggingEndpoint, clipboard, runVars, gesturePushes>>

\* handleCanvasDoubleClick: double-click on the canvas background
CanvasDoubleClick(p) ==
  LET c == ScreenToCanvas(p.x, p.y) IN
  /\ TopNodeAt(model, c) = 0
  /\ pendingPlacement = null
  /\ HandleAddElement(c, null)
  /\ UNCHANGED <<selectedElement, viewVars, panVars, modeVars, clipboard, runVars,
                 gesturePushes>>

\* handleElementDoubleClick: double-click on a node
ElementDoubleClick(i) ==
  LET el == model.elements[i] IN
  /\ ~readOnly
  /\ el.type \notin {"loop_r", "loop_b", "cloud"}
  /\ editingLabel' = Some([id |-> el.id,
                           x |-> rect.left + pan.x + (el.x * zoom.n) \div zoom.d,
                           y |-> rect.top + pan.y + (el.y * zoom.n) \div zoom.d])
  /\ UNCHANGED <<studioVars, viewVars, panVars, dragging, dragTarget, draggingCurve,
                 drawingConnection, resizing, connectionPopup, draggingEndpoint,
                 clipboard, envVars, runVars, gesturePushes>>

\* handleLabelSave: Enter or blur in the label editor
LabelSave(newLabel) ==
  /\ editingLabel # null
  /\ Commit(<<SetLabel(model, editingLabel[1].id, newLabel)>>)
  /\ editingLabel' = null
  /\ UNCHANGED <<selectedElement, pendingPlacement, viewVars, panVars, dragging,
                 dragTarget, draggingCurve, drawingConnection, resizing, connectionPopup,
                 draggingEndpoint, clipboard, envVars, runVars, gesturePushes>>

\* Escape in the label editor
LabelEscape ==
  /\ editingLabel # null
  /\ editingLabel' = null
  /\ UNCHANGED <<studioVars, viewVars, panVars, dragging, dragTarget, draggingCurve,
                 drawingConnection, resizing, connectionPopup, draggingEndpoint,
                 clipboard, envVars, runVars, gesturePushes>>

\* handleCreateConnection of the canvas: a type button of the popup
CreateConnection(type) ==
  /\ connectionPopup # null
  /\ Len(model.connections) < MaxConns
  /\ \E t \in now..MaxClock :
       /\ now' = t
       /\ Commit(<<AddConnection(model, NewConn(t, connectionPopup[1], type))>>)
  /\ connectionPopup' = null
  /\ UNCHANGED <<selectedElement, pendingPlacement, viewVars, panVars, dragging,
                 dragTarget, draggingCurve, drawingConnection, resizing, editingLabel,
                 draggingEndpoint, clipboard, rndSeq, runVars, gesturePushes>>

----------------------------------------------------------------------------
\* Keyboard (window keydown listeners of the canvas and of the studio page).
\* Both listeners ignore keys typed into an INPUT; the label editor holds the
\* focus while it is open.

KeysReachWindow == editingLabel = null

\* The model a delete handler passes to onModelChange
CanvasDelete(m, sel) ==
  IF sel.elementType = "edge" THEN DeleteEdge(m, sel.id) ELSE DeleteNode(m, sel.id)
StudioDeleteCalls(m, sel) ==
  IF sel.elementType = "node" THEN <<DeleteNode(m, sel.id)>>
  ELSE IF sel.elementType = "edge" THEN <<DeleteEdge(m, sel.id)>>
  ELSE <<>>

\* Delete / Backspace.  The canvas listener and the studio listener both handle
\* the key; a re-render between the two listeners unsubscribes the second one,
\* so `ran` is the set of listeners that run from the render of the key press.
KeyDelete(ran) ==
  /\ KeysReachWindow
  /\ selectedElement # null
  /\ LET sel == selectedElement[1]
         calls == (IF "canvas" \in ran THEN <<CanvasDelete(model, sel)>> ELSE <<>>)
                  \o (IF "studio" \in ran THEN StudioDeleteCalls(model, sel) ELSE <<>>)
     IN /\ Commit(calls)
  /\ selectedElement' = null
  /\ UNCHANGED <<pendingPlacement, viewVars, panVars, modeVars, clipboard, envVars,
                 runVars, gesturePushes>>

\* handleDeleteSelected from the toolbar / properties panel delete buttons
DeleteButton ==
  /\ selectedElement # null
  /\ Commit(StudioDeleteCalls(model, selectedElement[1]))
  /\ selectedElement' = null
  /\ UNCHANGED <<pendingPlacement, viewVars, panVars, modeVars, clipboard, envVars,
                 runVars, gesturePushes>>

\* Escape: the studio listener (the canvas listener has no Escape branch)
KeyEscape ==
  /\ KeysReachWindow
  /\ selectedElement' = null
  /\ UNCHANGED <<model, pendingPlacement, history, historyIndex, changes, viewVars, panVars,
                 modeVars, clipboard, envVars, runVars, gesturePushes>>

\* A single-letter shortcut without modifier
KeyShortcut(type) ==
  /\ KeysReachWindow
  /\ pendingPlacement' = Some(type)
  /\ UNCHANGED <<model, selectedElement, history, historyIndex, changes, viewVars, panVars,
                 modeVars, clipboard, envVars, runVars, gesturePushes>>

\* A palette button
PaletteClick(type) ==
  /\ pendingPlacement' = IF pendingPlacement = Some(type) THEN null ELSE Some(type)
  /\ UNCHANGED <<model, selectedElement, history, historyIndex, changes, viewVars, panVars,
                 modeVars, clipboard, envVars, runVars, gesturePushes>>

\* Ctrl+C
KeyCopy ==
  /\ KeysReachWindow
  /\ selectedElement # null
  /\ selectedElement[1].elementType # "edge"
  /\ ElementIndex(model, selectedElement[1].id) # 0
  /\ clipboard' = Some(model.elements[ElementIndex(model, selectedElement[1].id)])
  /\ UNCHANGED <<studioVars, viewVars, panVars, modeVars, envVars, runVars,
                 gesturePushes>>

\* Variant: the copy lies exactly on the original
CopyOf_SamePlace(el, t, r) == [el EXCEPT !.id = ElementId(t, r)]
\* The copy made by paste and duplicate
CopyOf(el, t, r) ==
  [el EXCEPT !.id = ElementId(t, r), !.x = el.x + PASTE_OFFSET, !.y = el.y + PASTE_OFFSET]

\* Ctrl+V
KeyPaste ==
  /\ KeysReachWindow
  /\ clipboard # null
  /\ Len(model.elements) < maxNodes
  /\ \E t \in now..MaxClock :
       LET newElement == CopyOf(clipboard[1], t, rndSeq) IN
       /\ now' = t
       /\ Commit(<<AddElement(model, newElement)>>)
       /\ clipboard' = Some([clipboard[1] EXCEPT !.x = clipboard[1].x + PASTE_OFFSET,
                                                 !.y = clipboard[1].y + PASTE_OFFSET])
       /\ selectedElement' = NodeSelection(newElement)
  /\ rndSeq' = rndSeq + 1
  /\ UNCHANGED <<pendingPlacement, viewVars, panVars, modeVars, runVars, gesturePushes>>

\* Ctrl+D
KeyDuplicate ==
  /\ KeysReachWindow
  /\ selectedElement # null
  /\ selectedElement[1].elementType # "edge"
  /\ ElementIndex(model, selectedElement[1].id) # 0
  /\ Len(model.elements) < maxNodes
  /\ \E t \in now..MaxClock :
       LET el == model.elements[ElementIndex(model, selectedElement[1].id)]
           newElement == CopyOf(el, t, rndSeq)
       IN /\ now' = t
          /\ Commit(<<AddElement(model, newElement)>>)
          /\ selectedElement' = NodeSelection(newElement)
  /\ rndSeq' = rndSeq + 1
  /\ UNCHANGED <<pendingPlacement, viewVars, panVars, modeVars, clipboard, runVars,
                 gesturePushes>>

\* undo (Ctrl+Z or the toolbar button): the index moves first; reading a
\* missing snapshot makes JSON.parse throw and leaves the model as it was
Undo ==
  /\ KeysReachWindow
  /\ historyIndex > 0
  /\ historyIndex' = historyIndex - 1
  /\ model' = IF historyIndex - 1 < Len(history)
                THEN JSONparse(history[historyIndex]) ELSE model
  /\ UNCHANGED <<selectedElement, pendingPlacement, history, changes, viewVars, panVars,
                 modeVars, clipboard, envVars, runVars, gesturePushes>>

\* redo (Ctrl+Shift+Z or the toolbar button)
Redo ==
  /\ KeysReachWindow
  /\ historyIndex < Len(history) - 1
  /\ historyIndex' = historyIndex + 1
  /\ model' = JSONparse(history[historyIndex + 2])
  /\ UNCHANGED <<selectedElement, pendingPlacement, history, changes, viewVars, panVars,
                 modeVars, clipboard, envVars, runVars, gesturePushes>>

----------------------------------------------------------------------------
\* The pointer does one thing at a time: a press, click or double-click
\* happens only while no pointer gesture is in progress.  Keys are pressed at
\* any time.
PointerFree == ~GestureActive

\* The editing session: placing with a shortcut, dragging, resizing, bending,
\* connecting, deleting, undo and redo
Next ==
  \/ PointerFree /\ \E p \in Points : ElementMouseDown(p)
  \/ PointerFree /\ \E i \in 1..Len(model.elements), p \in Points : EdgeDragStart(i, p)
  \/ PointerFree /\ \E i \in 1..Len(model.elements), corner \in Corners, p \in Points :
       ResizeStart(i, corner, p)
  \/ PointerFree /\ \E k \in 1..Len(model.connections) : ConnectionMouseDown(k)
  \/ PointerFree /\ \E k \in 1..Len(model.connections) : ConnectionClick(k)
  \/ \E p \in Points : MouseMove(p)
  \/ MouseUp
  \/ MouseLeave
  \/ PointerFree /\ \E p \in Points : CanvasClick(p)
  \/ PointerFree /\ \E type \in ConnTypes : CreateConnection(type)
  \/ \E ran \in {{"canvas"}, {"studio"}, {"canvas", "studio"}} : KeyDelete(ran)
  \/ PointerFree /\ DeleteButton
  \/ KeyEscape
  \/ \E type \in ShortcutTypes : KeyShortcut(type)
  \/ Undo
  \/ Redo

Spec == Init /\ [][Next]_vars

\* Every interaction mode of the canvas, over runs of MaxModeChanges changes
InitModes ==
  /\ InitCommon
  /\ model = InitModel
  /\ selectedElement = null
  /\ maxChanges = MaxModeChanges
  /\ maxNodes = MaxNodes

NextModes ==
  \/ PointerFree /\ \E p \in Points : ElementMouseDown(p)
  \/ PointerFree /\ \E i \in 1..Len(model.elements), p \in Points : EdgeDragStart(i, p)
  \/ PointerFree /\ \E i \in 1..Len(model.elements), corner \in Corners, p \in Points :
       ResizeStart(i, corner, p)
  \/ PointerFree /\ \E k \in 1..Len(model.connections) : ConnectionMouseDown(k)
  \/ PointerFree /\ \E p \in Points, button \in {0, 1} : PanStart(p, button)
  \/ PointerFree /\ \E k \in 1..Len(model.connections) : ConnectionClick(k)
  \/ PointerFree /\ \E k \in 1..Len(model.connections), endpoint \in {"source", "target"},
                      p \in Points : EndpointDragStart(k, endpoint, p)
  \/ \E p \in Points : MouseMove(p)
  \/ MouseUp
  \/ MouseLeave
  \/ PointerFree /\ \E p \in Points : CanvasClick(p)
  \/ PointerFree /\ \E p \in Points : CanvasDoubleClick(p)
  \/ PointerFree /\ \E i \in 1..Len(model.elements) : ElementDoubleClick(i)
  \/ \E l \in Labels : LabelSave(l)
  \/ LabelEscape
  \/ PointerFree /\ \E type \in ConnTypes : CreateConnection(type)
  \/ KeyEscape
  \/ \E type \in ShortcutTypes : KeyShortcut(type)
  \/ PointerFree /\ \E type \in ShortcutTypes : PaletteClick(type)

SpecModes == InitModes /\ [][NextModes]_vars

\* A long run of single changes (Ctrl+D on the newest node, starting from the
\* first node selected), undo and redo
InitHist ==
  /\ InitCommon
  /\ model = InitModel
  /\ selectedElement = NodeSelection(InitModel.elements[1])
  /\ maxChanges = MaxHistChanges
  /\ maxNodes = MaxHistChanges + 2

NextHist ==
  \/ KeyDuplicate
  \/ Undo
  \/ Redo

SpecHist == InitHist /\ [][NextHist]_vars

----------------------------------------------------------------------------
\* Properties

Elems(m) == { m.elements[i] : i \in 1..Len(m.elements) }
Conns(m) == { m.connections[i] : i \in 1..Len(m.connections) }

\* The steps of the handlers the properties speak about
DeleteStep ==
  \/ \E ran \in {{"canvas"}, {"studio"}, {"canvas", "studio"}} : KeyDelete(ran)
  \/ DeleteButton
DismissStep == connectionPopup # null /\ ~justPanned /\ \E p \in Points : CanvasClick(p)
DragEnd ==
  /\ HandleMouseUp
  /\ dragging # null /\ drawingConnection = null /\ draggingEndpoint = null
DrawEnd == HandleMouseUp /\ drawingConnection # null /\ draggingEndpoint = null

\* C1: every edge of the current diagram has its source and its target among
\* the diagram's nodes, in every reachable state.
C1_NoDanglingEdge ==
  \A c \in Conns(model) : c.source \in NodeIds(model) /\ c.target \in NodeIds(model)

ActiveModes ==
  (IF isPanning THEN 1 ELSE 0)
  + Len(dragging) + Len(draggingCurve) + Len(drawingConnection)
  + Len(draggingEndpoint) + Len(resizing) + Len(editingLabel)
  + Len(connectionPopup) + Len(pendingPlacement)
C3_ModesExclusive == ActiveModes <= 1

\* C4: the moves of one pointer gesture add at most one entry to the history.
C4_OnePushPerGesture == gesturePushes <= 1

\* C5: the history never holds more than 50 snapshots, and a handler that
\* makes one change keeps, in order, the newest snapshots up to the cursor
\* followed by the new one, discarding the oldest beyond 50.
C5_HistoryBounded ==
  /\ [](Len(history) <= HISTORY_LIMIT)
  /\ [][changes' = changes + 1 =>
          LET base == SubSeq(history, 1, Min(historyIndex + 1, Len(history)))
              kept == Min(Len(base), HISTORY_LIMIT - 1)
          IN /\ Len(history') = kept + 1
             /\ history'[kept + 1] = JSONstringify(model')
             /\ \A i \in 1..kept : history'[i] = base[Len(base) - kept + i]
       ]_vars

\* More than 50 changes have been made and the list holds exactly the last 50:
\* its oldest entry is no longer the first change
C5_Witness ==
  /\ changes > HISTORY_LIMIT
  /\ Len(history) = HISTORY_LIMIT
  /\ Len(JSONparse(history[1]).elements) > Len(InitModel.elements) + 1

\* C6: a type button of the popup appends exactly one edge with the popup's
\* source, target and anchors, the chosen type and curve 80, changes nothing
\* else and closes the popup; a dismissing click closes it and leaves the
\* diagram unchanged.
C6_PopupCommit ==
  [][/\ \A type \in ConnTypes :
          CreateConnection(type) =>
            LET n == Len(model.connections)
                popup == connectionPopup[1]
            IN /\ model'.elements = model.elements
               /\ Len(model'.connections) = n + 1
               /\ SubSeq(model'.connections, 1, n) = model.connections
               /\ model'.connections[n + 1].source = popup.sourceId
               /\ model'.connections[n + 1].target = popup.targetId
               /\ model'.connections[n + 1].sourceAnchor = popup.sourceAnchor
               /\ model'.connections[n + 1].targetAnchor = popup.targetAnchor
               /\ model'.connections[n + 1].type = type
               /\ model'.connections[n + 1].curve = RENDER_DEFAULT_CURVE
               /\ connectionPopup' = null
     /\ DismissStep => model' = model /\ connectionPopup' = null
    ]_vars

\* The popup that a gesture from node `sourceId` to node `targetId` opens
PopupFor(popup, sourceId, targetId) ==
  /\ popup # null
  /\ popup[1].sourceId = sourceId
  /\ popup[1].targetId = targetId
  /\ popup[1].sourceAnchor = "auto"
  /\ popup[1].targetAnchor = "auto"

\* The diagram m with node `id` at (x, y) and everything else as it is
NodeAt(m, n, id, x, y) ==
  /\ n.connections = m.connections
  /\ Len(n.elements) = Len(m.elements)
  /\ \A i \in 1..Len(m.elements) :
       n.elements[i] = IF m.elements[i].id = id
                         THEN [m.elements[i] EXCEPT !.x = x, !.y = y]
                         ELSE m.elements[i]

\* What the end of a node drag does when the drop is on a target
DroppedOnTarget ==
  /\ NodeAt(model, model', dragging[1].id, dragging[1].startX, dragging[1].startY)
  /\ PopupFor(connectionPopup', dragging[1].id, dragTarget[1])
\* ... and when there is no target
DroppedFree == model' = model /\ connectionPopup' = connectionPopup

DrawnToTarget ==
  /\ PopupFor(connectionPopup', drawingConnection[1].sourceId, dragTarget[1])
  /\ model' = model
\* ... and with no target
DrawnNowhere == connectionPopup' = connectionPopup /\ model' = model

C9_EscapeCancelsConnect ==
  [][KeyEscape => connectionPopup' = null /\ drawingConnection' = null]_vars

\* C10: after Escape the selection and the pending placement are both null.
C10_EscapeClears ==
  [][KeyEscape => selectedElement' = null /\ pendingPlacement' = null]_vars

----------------------------------------------------------------------------
\* Placement

\* A click at screen point p has appended one node of the pending type at the
\* canvas point under p and cleared the pending placement; the nodes and
\* edges that existed are as they were, and no pan has started
PlacedAt(p) ==
  LET c == ScreenToCanvas(p.x, p.y)
      n == Len(model.elements)
  IN /\ Len(model'.elements) = n + 1
     /\ SubSeq(model'.elements, 1, n) = model.elements
     /\ model'.elements[n + 1].type = pendingPlacement[1]
     /\ model'.elements[n + 1].x = c.x
     /\ model'.elements[n + 1].y = c.y
     /\ model'.connections = model.connections
     /\ pendingPlacement' = null
     /\ ~isPanning'

\* C11: with a placement pending, a click on the canvas background creates
\* exactly one node of the pending type at the canvas point under the
\* pointer, clears the pending placement, leaves the existing nodes and edges
\* unchanged and starts no pan.
C11_PlacementClick ==
  [][\A p \in Points :
       (pendingPlacement # null /\ CanvasClick(p)) => PlacedAt(p)]_vars

----------------------------------------------------------------------------
\* Identifiers

\* `el-${Date.now()}` of the Duplicate button: no random suffix
ButtonId(t) == <<"el", t>>

\* The Duplicate button of the properties panel; the selection stays on the
\* original node
DuplicateButton ==
  /\ selectedElement # null
  /\ selectedElement[1].elementType # "edge"
  /\ ElementIndex(model, selectedElement[1].id) # 0
  /\ Len(model.elements) < maxNodes
  /\ \E t \in now..MaxClock :
       LET el == model.elements[ElementIndex(model, selectedElement[1].id)]
           newEl == [el EXCEPT !.id = ButtonId(t), !.x = el.x + PASTE_OFFSET,
                               !.y = el.y + PASTE_OFFSET]
       IN /\ now' = t
          /\ Commit(<<AddElement(model, newEl)>>)
  /\ UNCHANGED <<selectedElement, pendingPlacement, viewVars, panVars, modeVars,
                 clipboard, rndSeq, runVars, gesturePushes>>

\* Copies of a node made with the panel button, Ctrl+D and Ctrl+C / Ctrl+V,
\* starting from the first node selected, with undo and redo
InitIds ==
  /\ InitCommon
  /\ model = InitModel
  /\ selectedElement = NodeSelection(InitModel.elements[1])
  /\ maxChanges = MaxIdChanges
  /\ maxNodes = MaxIdChanges + 2

NextIds ==
  \/ DuplicateButton
  \/ KeyDuplicate
  \/ KeyCopy
  \/ KeyPaste
  \/ Undo
  \/ Redo

SpecIds == InitIds /\ [][NextIds]_vars

\* C12: no two nodes of the diagram share an id and no two edges share an id.
C12_UniqueIds ==
  /\ \A i, j \in 1..Len(model.elements) :
       i # j => model.elements[i].id # model.elements[j].id
  /\ \A i, j \in 1..Len(model.connections) :
       i # j => model.connections[i].id # model.connections[j].id

----------------------------------------------------------------------------
\* Curve drag

\* Edges drawn between the two nodes of a diagram that starts without edges,
\* and bent by dragging
InitCurve ==
  /\ InitCommon
  /\ model = [InitModel EXCEPT !.connections = <<>>]
  /\ selectedElement = NodeSelection(InitModel.elements[1])
  /\ maxChanges = MaxCurveChanges
  /\ maxNodes = MaxNodes

NextCurve ==
  \/ PointerFree /\ \E i \in 1..Len(model.elements), p \in Points : EdgeDragStart(i, p)
  \/ PointerFree /\ \E k \in 1..Len(model.connections) : ConnectionMouseDown(k)
  \/ \E p \in Points : MouseMove(p)
  \/ MouseUp
  \/ PointerFree /\ \E type \in ConnTypes : CreateConnection(type)

SpecCurve == InitCurve /\ [][NextCurve]_vars

\* A pointer-move of a curve drag
CurveMove == draggingCurve # null /\ \E p \in Points : MouseMove(p)

\* C13: every pointer-move of a curve drag leaves the dragged edge with an
\* integer curve within [-200, 200] and changes no other edge.
C13_CurveClamp ==
  [][CurveMove =>
       LET d == ConnIndex(model, draggingCurve[1].id) IN
       /\ Len(model'.connections) = Len(model.connections)
       /\ \A k \in 1..Len(model.connections) :
            IF k = d THEN model'.connections[k].curve \in -200..200
            ELSE model'.connections[k] = model.connections[k]
    ]_vars

----------------------------------------------------------------------------
\* Wheel.  The numbers of the view are fractions [n, d] in lowest terms with
\* d > 0, computed exactly; in SpecWheel the coordinates of pan are fractions
\* too.

RECURSIVE Gcd(_, _)
Gcd(a, b) == IF b = 0 THEN a ELSE Gcd(b, a % b)

Frac(n, d) ==
  LET g == Gcd(Abs(n), Abs(d))
      sgn == IF d < 0 THEN -1 ELSE 1
  IN [n |-> sgn * (n \div g), d |-> sgn * (d \div g)]
FInt(i) == [n |-> i, d |-> 1]
FSub(a, b) == Frac(a.n * b.d - b.n * a.d, a.d * b.d)
FMul(a, b) == Frac(a.n * b.n, a.d * b.d)
FDiv(a, b) == Frac(a.n * b.d, a.d * b.n)
FLess(a, b) == a.n * b.d < b.n * a.d
FMin(a, b) == IF FLess(b, a) THEN b ELSE a
FMax(a, b) == IF FLess(a, b) THEN b ELSE a

ZOOM_MIN == [n |-> 1, d |-> 20]    \* 0.05
ZOOM_MAX == [n |-> 5, d |-> 1]
ZOOM_OUT == [n |-> 9, d |-> 10]    \* 0.9
ZOOM_IN == [n |-> 11, d |-> 10]    \* 1.1

\* zoomFactor of handleWheel
ZoomFactor(deltaY) == IF deltaY > 0 THEN ZOOM_OUT ELSE ZOOM_IN

\* newZoom of handleWheel
NewZoom(prevZoom, zoomFactor) == FMax(ZOOM_MIN, FMin(ZOOM_MAX, FMul(prevZoom, zoomFactor)))

\* Variant: the nominal factor, whatever the clamp did
ActualFactor_Nominal(prevZoom, newZoom, zoomFactor) == zoomFactor

\* actualFactor of handleWheel
ActualFactor(prevZoom, newZoom, zoomFactor) == FDiv(newZoom, prevZoom)

\* The pan set by the zoom branch of handleWheel, one coordinate
ZoomedPan(mouse, prevPan, actualFactor) ==
  FSub(FInt(mouse), FMul(FSub(FInt(mouse), prevPan), actualFactor))

\* screenToCanvas, one coordinate, for a fractional pan and zoom
CanvasCoord(screen, origin, panCoord, z) ==
  FDiv(FSub(FInt(screen - origin), panCoord), z)

WheelPoints == { [x |-> 0, y |-> 0], [x |-> 55, y |-> 30], [x |-> 400, y |-> 300] }
WheelDeltas == { -100, 0, 100 }

InView(f) == f.d <= MaxDenominator /\ Abs(f.n) <= MaxWheelPan * f.d

\* handleWheel with ctrl or meta held
WheelZoom(p, deltaY) ==
  LET mouseX == p.x - rect.left
      mouseY == p.y - rect.top
      zoomFactor == ZoomFactor(deltaY)
      newZoom == NewZoom(zoom, zoomFactor)
      actualFactor == ActualFactor(zoom, newZoom, zoomFactor)
  IN /\ zoom' = newZoom
     /\ pan' = [x |-> ZoomedPan(mouseX, pan.x, actualFactor),
                y |-> ZoomedPan(mouseY, pan.y, actualFactor)]
     /\ InView(zoom') /\ InView(pan'.x) /\ InView(pan'.y)
     /\ wheelEvents < MaxWheel
     /\ wheelEvents' = wheelEvents + 1
     /\ UNCHANGED <<studioVars, panVars, modeVars, clipboard, envVars, limitVars,
                    storageVars, rendered, gesturePushes>>

\* handleWheel without modifier: the view scrolls
WheelScroll(deltaX, deltaY) ==
  /\ pan' = [x |-> FSub(pan.x, FInt(deltaX)), y |-> FSub(pan.y, FInt(deltaY))]
  /\ InView(pan'.x) /\ InView(pan'.y)
  /\ wheelEvents < MaxWheel
  /\ wheelEvents' = wheelEvents + 1
  /\ UNCHANGED <<studioVars, zoom, panVars, modeVars, clipboard, envVars, limitVars,
                 storageVars, rendered, gesturePushes>>

\* Wheel events over a view that starts at one of the zooms the toolbar
\* buttons lead to (1, the limits 5 and 0.05, and 4 = 5 / 1.25)
InitWheel ==
  /\ InitRest
  /\ InitStorageIdle
  /\ model = InitModel
  /\ selectedElement = null
  /\ maxChanges = MaxChanges
  /\ maxNodes = MaxNodes
  /\ pan = [x |-> FInt(0), y |-> FInt(0)]
  /\ zoom \in { FInt(1), FInt(4), ZOOM_MAX, ZOOM_MIN }

NextWheel ==
  \/ \E p \in WheelPoints, deltaY \in WheelDeltas : WheelZoom(p, deltaY)
  \/ \E deltaY \in WheelDeltas : WheelScroll(0, deltaY)

SpecWheel == InitWheel /\ [][NextWheel]_vars

\* C14: a ctrl/meta wheel event sets zoom to clamp(zoom * 0.9, 0.05, 5) for
\* deltaY > 0 and to clamp(zoom * 1.1, 0.05, 5) otherwise, and the canvas
\* point under the pointer is the same before and after the event.
C14_WheelAnchored ==
  [][\A p \in WheelPoints, deltaY \in WheelDeltas :
       WheelZoom(p, deltaY) =>
         /\ zoom' = FMax(ZOOM_MIN, FMin(ZOOM_MAX,
                      FMul(zoom, IF deltaY > 0 THEN ZOOM_OUT ELSE ZOOM_IN)))
         /\ CanvasCoord(p.x, rect.left, pan'.x, zoom')
              = CanvasCoord(p.x, rect.left, pan.x, zoom)
         /\ CanvasCoord(p.y, rect.top, pan'.y, zoom')
              = CanvasCoord(p.y, rect.top, pan.y, zoom)
    ]_vars

\* Scroll-down at (400,300) from zoom 1 and pan (0,0) has given zoom 0.9 and
\* pan (40,30)
C14_Witness ==
  /\ zoom = [n |-> 9, d |-> 10]
  /\ pan = [x |-> FInt(40), y |-> FInt(30)]

----------------------------------------------------------------------------
\* Storage: import and save

\* `model-${Date.now()}-${Math.random()...}`
ModelId(t, r) == <<"model", t, r>>

\* obj.key = value on a JavaScript object
SetField(o, key, value) ==
  [f \in DOMAIN o \cup {key} |-> IF f = key THEN value ELSE o[f]]

\* The text of an imported file: not JSON, or the JSON value it parses to
NotJson == [json |-> FALSE]
JsonNull == [json |-> TRUE, type |-> "null"]
JsonNumber == [json |-> TRUE, type |-> "number"]
JsonObject(o) == [json |-> TRUE, type |-> "object", value |-> o]
NoArrays == [name |-> "X"]
NoConnections == [name |-> "X", elements |-> <<>>]
OneNode ==
  [name |-> "X",
   elements |-> << [id |-> ElementId(0, 2), type |-> "stock", label |-> "Stock",
                    x |-> 55, y |-> 30, width |-> 0, height |-> 0] >>,
   connections |-> <<>>]
Files == { NotJson, JsonNull, JsonNumber, JsonObject(NoArrays),
           JsonObject(NoConnections), JsonObject(OneNode) }

\* A diagram has its two arrays
HasArrays(m) == "elements" \in DOMAIN m /\ "connections" \in DOMAIN m

\* importModel: JSON.parse, then the id and importedAt assignments inside the
\* same try (assigning a property of null or of a primitive throws)
importModel(file, t, r) ==
  IF ~file.json THEN [ok |-> FALSE, message |-> "Invalid JSON file"]
  ELSE IF file.type # "object" THEN [ok |-> FALSE, message |-> "Invalid JSON file"]
  ELSE [ok |-> TRUE,
        model |-> SetField(SetField(file.value, "id", ModelId(t, r)), "importedAt", t)]

Notice(message, type) == Some([message |-> message, type |-> type])

\* handleImport, with handleLoadModel for a resolved import
HandleImport(file) ==
  \E t \in now..MaxClock :
    LET res == importModel(file, t, rndSeq) IN
    IF res.ok THEN
      /\ rndSeq < MaxRandom
      /\ model' = res.model
      /\ localStorage' = [localStorage EXCEPT !.current = res.model.id]
      /\ history' = <<>>
      /\ historyIndex' = -1
      /\ notification' = Notice("Model imported!", "success")
      /\ now' = t
      /\ rndSeq' = rndSeq + 1
      /\ UNCHANGED <<selectedElement, pendingPlacement, changes, viewVars, panVars,
                     modeVars, clipboard, limitVars, wheelEvents, savedModels,
                     rendered, gesturePushes>>
    ELSE
      /\ notification' = Notice(res.message, "error")
      /\ UNCHANGED <<studioVars, viewVars, panVars, modeVars, clipboard, envVars,
                     limitVars, wheelEvents, localStorage, savedModels, rendered,
                     gesturePushes>>

\* The browser store at a save: it works, the write throws (quota), or every
\* access throws (storage unavailable)
StoreStates == {"ok", "quota", "unavailable"}

\* getSavedModels: a throwing read gives the empty list
getSavedModels(store, env) == IF env = "unavailable" THEN <<>> ELSE store.models

\* Variant: a failed write leaves the key empty
SetItem_Truncating(store, value, env) ==
  IF env = "ok" THEN [ok |-> TRUE, store |-> [store EXCEPT !.models = value]]
  ELSE [ok |-> FALSE, store |-> [store EXCEPT !.models = <<>>]]

\* localStorage.setItem(STORAGE_KEY, ...) inside the try of saveModel
SetItem(store, value, env) ==
  IF env = "ok" THEN [ok |-> TRUE, store |-> [store EXCEPT !.models = value]]
  ELSE [ok |-> FALSE, store |-> store]

\* saveModel: [ok, store]
saveModel(m, store, env, t) ==
  LET models == getSavedModels(store, env)
      existingIndex == FindIndex(models, LAMBDA x : x.id = m.id)
      modelToSave == SetField(m, "updatedAt", t)
      list == IF existingIndex > 0
                THEN [models EXCEPT ![existingIndex] = modelToSave]
                ELSE Append(models, SetField(modelToSave, "createdAt", t))
  IN SetItem(store, list, env)

\* handleSave
HandleSave(env) ==
  \E t \in now..MaxClock :
    LET res == saveModel(model, localStorage, env, t) IN
    /\ now' = t
    /\ localStorage' = res.store
    /\ IF res.ok THEN
         /\ savedModels' = getSavedModels(res.store, env)
         /\ notification' = Notice("Model saved!", "success")
       ELSE
         /\ notification' = Notice("Failed to save model", "error")
         /\ UNCHANGED savedModels
    /\ UNCHANGED <<studioVars, viewVars, panVars, modeVars, clipboard, rndSeq,
                   limitVars, wheelEvents, rendered, gesturePushes>>

\* The timer of showNotification
NotificationExpires ==
  /\ notification # null
  /\ notification' = null
  /\ UNCHANGED <<studioVars, viewVars, panVars, modeVars, clipboard, envVars,
                 limitVars, wheelEvents, localStorage, savedModels, rendered,
                     gesturePushes>>

\* The diagram of the page with its id
CurrentModel ==
  [id |-> ModelId(0, 0), elements |-> InitModel.elements,
   connections |-> InitModel.connections]

\* The page after mount: the current diagram, never saved or saved before
InitStorage ==
  /\ InitRest
  /\ pan = [x |-> 0, y |-> 0]
  /\ zoom = [n |-> 1, d |-> 1]
  /\ model = CurrentModel
  /\ selectedElement = NodeSelection(InitModel.elements[1])
  /\ maxChanges = MaxStorageChanges
  /\ maxNodes = MaxNodes
  /\ localStorage \in
       { [models |-> <<>>, current |-> ModelId(0, 0)],
         [models |-> << SetField(SetField([CurrentModel EXCEPT !.connections = <<>>],
                                          "updatedAt", 0), "createdAt", 0) >>,
          current |-> ModelId(0, 0)] }
  /\ savedModels = localStorage.models
  /\ notification = null

\* Importing, saving and duplicating; a handler that reads a missing array
\* throws and changes nothing
NextStorage ==
  \/ \E file \in Files : HandleImport(file)
  \/ \E env \in StoreStates : HandleSave(env)
  \/ NotificationExpires
  \/ HasArrays(model) /\ KeyDuplicate

SpecStorage == InitStorage /\ [][NextStorage]_vars

\* The file is not a diagram: not JSON, or JSON without the two arrays
Malformed(file) ==
  \/ ~file.json
  \/ file.type # "object"
  \/ ~HasArrays(file.value)

\* C15: a malformed import is rejected with an error message and leaves the
\* diagram, its history and the current-model id as they were.
C15_MalformedImportRejected ==
  [][\A file \in Files :
       (Malformed(file) /\ HandleImport(file)) =>
         /\ notification' # null
         /\ notification'[1].type = "error"
         /\ model' = model
         /\ history' = history
         /\ historyIndex' = historyIndex
         /\ localStorage'.current = localStorage.current
    ]_vars

\* C16: when the store is unavailable or the write throws, saveModel returns
\* false (the page reports the failed save), and neither the diagram in
\* memory nor the stored list of models is altered.
C16_FailedSaveHarmless ==
  [][\A env \in StoreStates \ {"ok"} :
       HandleSave(env) =>
         /\ ~saveModel(model, localStorage, env, now').ok
         /\ notification' = Notice("Failed to save model", "error")
         /\ model' = model
         /\ localStorage' = localStorage
         /\ savedModels' = savedModels
    ]_vars

\* A save has failed on a store that holds a saved model, after the diagram
\* was edited
C16_Witness ==
  /\ notification = Notice("Failed to save model", "error")
  /\ Len(localStorage.models) = 1
  /\ model.id = CurrentModel.id
  /\ Len(model.elements) = 3

----------------------------------------------------------------------------
\* Export.  Half sizes need not be integers, so the lengths of the exported
\* document are kept doubled (names ending in 2).

EXPORT_PADDING == 50
EXPORT_MARGIN == 20
EXPORT_MIN_WIDTH == 200
EXPORT_MIN_HEIGHT == 150

\* w, h of the bounding-box loop of generateSVGContent
ExportBoxDims(el) ==
  LET shape == Shape(el.type)
      w == IF el.width = 0 THEN 100 ELSE el.width
      h == IF el.height = 0 THEN 44 ELSE el.height
  IN IF shape = "text" /\ el.width = 0 THEN [w |-> 80, h |-> 24]
     ELSE IF shape = "loop" /\ el.width = 0 THEN [w |-> 44, h |-> 44]
     ELSE IF shape = "cloud" /\ el.width = 0 THEN [w |-> 50, h |-> 36]
     ELSE IF shape = "valve" /\ el.width = 0 THEN [w |-> 40, h |-> 34]
     ELSE [w |-> w, h |-> h]

\* getElDims of generateSVGContent: the size a node is drawn with
getElDims(el) ==
  LET shape == Shape(el.type)
      w == IF el.width = 0 THEN 100 ELSE el.width
      h == IF el.height = 0 THEN 44 ELSE el.height
  IN IF shape = "text" /\ el.width = 0 THEN [w |-> 80, h |-> 24]
     ELSE IF shape = "loop" /\ el.width = 0 THEN [w |-> 44, h |-> 44]
     ELSE IF shape = "cloud" /\ el.width = 0 THEN [w |-> 50, h |-> 36]
     ELSE IF shape = "valve" /\ el.width = 0 THEN [w |-> 40, h |-> 34]
     ELSE IF shape = "circle" /\ el.width = 0 THEN [w |-> 40, h |-> 40]
     ELSE [w |-> w, h |-> h]

SetMin(S) == CHOOSE x \in S : \A y \in S : x <= y
SetMax(S) == CHOOSE x \in S : \A y \in S : x >= y

\* Variant: no lower limit
SvgExtent2_Unbounded(lo2, hi2, least) == hi2 - lo2 + 2 * (EXPORT_PADDING * 2)

\* width and height of generateSVGContent (doubled)
SvgExtent2(lo2, hi2, least) == Max(2 * least, hi2 - lo2 + 2 * (EXPORT_PADDING * 2))

\* generateSVGContent: the frame of the document (null for an empty diagram)
generateSVGContent(m) ==
  IF Len(m.elements) = 0 THEN null
  ELSE LET els == { m.elements[i] : i \in 1..Len(m.elements) }
           minX2 == SetMin({ 2 * el.x - ExportBoxDims(el).w - 2 * EXPORT_MARGIN : el \in els })
           minY2 == SetMin({ 2 * el.y - ExportBoxDims(el).h - 2 * EXPORT_MARGIN : el \in els })
           maxX2 == SetMax({ 2 * el.x + ExportBoxDims(el).w + 2 * EXPORT_MARGIN : el \in els })
           maxY2 == SetMax({ 2 * el.y + ExportBoxDims(el).h + 2 * EXPORT_MARGIN : el \in els })
       IN Some([kind |-> "svg",
                width2 |-> SvgExtent2(minX2, maxX2, EXPORT_MIN_WIDTH),
                height2 |-> SvgExtent2(minY2, maxY2, EXPORT_MIN_HEIGHT),
                offsetX2 |-> -minX2 + 2 * EXPORT_PADDING,
                offsetY2 |-> -minY2 + 2 * EXPORT_PADDING])

\* exportSVG / exportPNG
Export ==
  /\ generateSVGContent(model) # null
  /\ rendered' = generateSVGContent(model)
  /\ UNCHANGED <<studioVars, viewVars, panVars, modeVars, clipboard, envVars, limitVars,
                 wheelEvents, storageVars, gesturePushes>>

\* Back to editing: the document has been handed to the browser
ExportDone ==
  /\ rendered # null
  /\ rendered' = null
  /\ UNCHANGED <<studioVars, viewVars, panVars, modeVars, clipboard, envVars, limitVars,
                 wheelEvents, storageVars, gesturePushes>>

ExportTypes == {"variable", "stock", "flow", "converter", "cloud", "loop_r"}
ExportSizes == { [w |-> 0, h |-> 0], [w |-> 121, h |-> 61], [w |-> 300, h |-> 200] }
ExportNodes ==
  { [id |-> ElementId(0, r), type |-> type, label |-> "X", x |-> p.x, y |-> p.y,
     width |-> sz.w, height |-> sz.h] :
      r \in {0}, type \in ExportTypes, p \in Points, sz \in ExportSizes }

\* Diagrams of up to MaxExportNodes nodes of any type, with and without
\* explicit size
InitExport ==
  /\ InitCommon
  /\ selectedElement = null
  /\ maxChanges = MaxChanges
  /\ maxNodes = MaxNodes
  /\ \E n \in 1..MaxExportNodes :
       \E nodes \in [1..n -> ExportNodes] :
         model = [elements |-> [i \in 1..n |-> [nodes[i] EXCEPT !.id = ElementId(0, i - 1)]],
                  connections |-> <<>>]

NextExport ==
  \/ Export
  \/ ExportDone

SpecExport == InitExport /\ [][NextExport]_vars

\* The box of node el in the exported document (doubled), drawn size
DrawnBox2(el, doc) ==
  [left |-> 2 * el.x - getElDims(el).w + doc.offsetX2,
   right |-> 2 * el.x + getElDims(el).w + doc.offsetX2,
   top |-> 2 * el.y - getElDims(el).h + doc.offsetY2,
   bottom |-> 2 * el.y + getElDims(el).h + doc.offsetY2]

\* Every node lies inside the frame of the document
NodesInside(m, doc) ==
  \A i \in 1..Len(m.elements) :
    LET b == DrawnBox2(m.elements[i], doc) IN
    /\ 0 <= b.left /\ b.right <= doc.width2
    /\ 0 <= b.top /\ b.bottom <= doc.height2

\* The extent of the content box (doubled): node centres expanded by the half
\* size of dims(el) and the margin
ContentWidth2(m, dims(_)) ==
  LET els == { m.elements[i] : i \in 1..Len(m.elements) }
  IN SetMax({ 2 * el.x + dims(el).w : el \in els })
       - SetMin({ 2 * el.x - dims(el).w : el \in els }) + 4 * EXPORT_MARGIN
ContentHeight2(m, dims(_)) ==
  LET els == { m.elements[i] : i \in 1..Len(m.elements) }
  IN SetMax({ 2 * el.y + dims(el).h : el \in els })
       - SetMin({ 2 * el.y - dims(el).h : el \in els }) + 4 * EXPORT_MARGIN

----------------------------------------------------------------------------
\* Node dimensions

\* width, height of getEdgePoint
EdgePointDims(el) ==
  LET shape == Shape(el.type)
      w == IF el.width = 0 THEN 100 ELSE el.width
      h == IF el.height = 0 THEN 44 ELSE el.height
  IN IF shape = "text" /\ el.width = 0 THEN [w |-> 80, h |-> 24]
     ELSE IF shape = "valve" /\ el.width = 0 THEN [w |-> 40, h |-> 34]
     ELSE IF shape = "loop" /\ el.width = 0 THEN [w |-> 44, h |-> 44]
     ELSE IF shape = "cloud" /\ el.width = 0 THEN [w |-> 50, h |-> 36]
     ELSE IF shape = "circle" /\ el.width = 0 THEN [w |-> 40, h |-> 40]
     ELSE [w |-> w, h |-> h]

\* startWidth, startHeight of handleResizeStart
ResizeStartDims(el) ==
  [w |-> IF el.width = 0 THEN ResizeDefaults(el).w ELSE el.width,
   h |-> IF el.height = 0 THEN ResizeDefaults(el).h ELSE el.height]

\* The defaults the specification lists per node type
ListedDefault(type) ==
  CASE type = "variable" -> [w |-> 80, h |-> 24]
    [] type = "stock" -> [w |-> 100, h |-> 44]
    [] type = "flow" -> [w |-> 40, h |-> 34]
    [] type = "converter" -> [w |-> 40, h |-> 40]
    [] type = "cloud" -> [w |-> 50, h |-> 36]
    [] type = "loop_r" -> [w |-> 44, h |-> 44]
    [] type = "loop_b" -> [w |-> 44, h |-> 44]

\* C18: for a node without explicit width and height, the renderer, the
\* edge-point computation, anchor snapping, resize start and the export
\* serializer (bounding-box loop and getElDims) all use the same size, the
\* default of the node's type.
C18_SameDimensions ==
  \A i \in 1..Len(model.elements) :
    LET el == model.elements[i] IN
    (el.width = 0 /\ el.height = 0) =>
      /\ RenderDims(el) = ListedDefault(el.type)
      /\ EdgePointDims(el) = ListedDefault(el.type)
      /\ AnchorDims(el) = ListedDefault(el.type)
      /\ ResizeStartDims(el) = ListedDefault(el.type)
      /\ ExportBoxDims(el) = ListedDefault(el.type)
      /\ getElDims(el) = ListedDefault(el.type)

----------------------------------------------------------------------------
\* Anchor snapping

AnchorNodes(r, p) ==
  { [id |-> ElementId(0, r), type |-> type, label |-> "X", x |-> p.x, y |-> p.y,
     width |-> sz.w, height |-> sz.h] : type \in ExportTypes, sz \in ExportSizes }

\* Two nodes of any type and size joined by one selected edge, whose ends
\* are dragged
InitAnchor ==
  /\ InitCommon
  /\ maxChanges = MaxAnchorChanges
  /\ maxNodes = MaxNodes
  /\ \E a \in AnchorNodes(0, InitModel.elements[1]),
        b \in AnchorNodes(1, InitModel.elements[2]) :
       model = [elements |-> <<a, b>>, connections |-> InitModel.connections]
  /\ selectedElement = EdgeSelection(InitModel.connections[1])

NextAnchor ==
  \/ PointerFree /\ \E k \in 1..Len(model.connections), endpoint \in {"source", "target"},
                      p \in Points : EndpointDragStart(k, endpoint, p)
  \/ \E p \in Points : MouseMove(p)
  \/ MouseUp

SpecAnchor == InitAnchor /\ [][NextAnchor]_vars

\* The end of an endpoint drag
EndpointEnd == HandleMouseUp /\ draggingEndpoint # null

\* C19: the anchor committed at the end of an endpoint drag is one of top,
\* bottom, left, right, its side midpoint is at minimal distance from the
\* pointer, and no side earlier in the order top, bottom, left, right is as
\* near.
C19_ClosestAnchor ==
  [][EndpointEnd =>
       LET de == draggingEndpoint[1]
           k == ConnIndex(model, de.connId)
           conn == model.connections[k]
           i == ElementIndex(model, IF de.endpoint = "source" THEN conn.source
                                    ELSE conn.target)
           el == model.elements[i]
           a == IF de.endpoint = "source" THEN model'.connections[k].sourceAnchor
                ELSE model'.connections[k].targetAnchor
           pos == CHOOSE n \in 1..4 : <<"top", "bottom", "left", "right">>[n] = a
       IN (k # 0 /\ i # 0) =>
            /\ a \in {"top", "bottom", "left", "right"}
            /\ \A side \in {"top", "bottom", "left", "right"} :
                 AnchorDist2(el, a, de.x, de.y) <= AnchorDist2(el, side, de.x, de.y)
            /\ \A n \in 1..(pos - 1) :
                 AnchorDist2(el, <<"top", "bottom", "left", "right">>[n], de.x, de.y)
                   > AnchorDist2(el, a, de.x, de.y)
    ]_vars

\* An endpoint dragged to the centre of its square node, where all four
\* sides are equally near, has snapped to top
C19_Witness ==
  /\ draggingEndpoint = null
  /\ changes = 1
  /\ model.elements[1].type = "loop_r"
  /\ model.elements[1].width = 0
  /\ model.connections[1].sourceAnchor = "top"
  /\ model.connections[1].targetAnchor = "auto"

----------------------------------------------------------------------------
\* Edge points.  Offsets from the node centre are kept doubled (a half width
\* is w / 2) and exact, as fractions; a direction is an integer vector, of
\* which getEdgePoint uses the angle and the signs only.

FAbs(a) == [n |-> Abs(a.n), d |-> a.d]
FLeq(a, b) == ~FLess(b, a)

\* Variant: always the right-hand side
SideX2_Right(w, dx) == w

\* edgeX = dx > 0 ? halfWidth : -halfWidth
SideX2(w, dx) == IF dx > 0 THEN w ELSE -w

\* edgeY = dy > 0 ? halfHeight : -halfHeight
SideY2(h, dy) == IF dy > 0 THEN h ELSE -h

\* getEdgePoint, Auto anchor, rectangle intersection: the offset of the edge
\* point from the centre of el for a target in direction (dx, dy).
\* atan2(0, 0) is 0, so a target at the centre takes the left/right branch.
RectEdgeOffset2(el, dx, dy) ==
  LET d == EdgePointDims(el)
      \* absAngle < cornerAngle
      towardRight == \/ dx > 0 /\ Abs(dy) * d.w < d.h * dx
                     \/ dx = 0 /\ dy = 0 /\ d.h > 0
      \* absAngle > Math.PI - cornerAngle
      towardLeft == dx < 0 /\ Abs(dy) * d.w < d.h * (-dx)
  IN IF towardRight \/ towardLeft
       THEN LET edgeX2 == SideX2(d.w, dx)
            IN [x |-> FInt(edgeX2),
                y |-> IF dx = 0 THEN FInt(0) ELSE Frac(edgeX2 * dy, dx)]
       ELSE LET edgeY2 == SideY2(d.h, dy)
            IN [x |-> IF dy = 0 THEN FInt(0) ELSE Frac(edgeY2 * dx, dy),
                y |-> FInt(edgeY2)]

\* getEdgePoint for a fixed anchor
FixedEdgeOffset2(el, anchor) ==
  LET d == EdgePointDims(el) IN
  CASE anchor = "top" -> [x |-> FInt(0), y |-> FInt(-d.h)]
    [] anchor = "bottom" -> [x |-> FInt(0), y |-> FInt(d.h)]
    [] anchor = "left" -> [x |-> FInt(-d.w), y |-> FInt(0)]
    [] anchor = "right" -> [x |-> FInt(d.w), y |-> FInt(0)]

\* getEdgePoint of a rectangular node: [auto, dir, offset]
getEdgePoint(el, dir, anchor) ==
  IF anchor # "auto"
    THEN [auto |-> FALSE, dir |-> dir, offset |-> FixedEdgeOffset2(el, anchor)]
    ELSE [auto |-> TRUE, dir |-> dir, offset |-> RectEdgeOffset2(el, dir.x, dir.y)]

\* An integer vector reduced to lowest terms
Direction(x, y) ==
  LET g == Gcd(Abs(x), Abs(y)) IN
  IF g = 0 THEN [x |-> 0, y |-> 0] ELSE [x |-> x \div g, y |-> y \div g]

\* renderConnection: the control point and the two edge points of edge k.
\* The control point is mid + perp * curve with perp = (-dy, dx) / len; it is
\* computed when it is rational (curve 0, coincident centres, or an integer len)
RenderConnection(k) ==
  LET conn == model.connections[k]
      si == ElementIndex(model, conn.source)
      ti == ElementIndex(model, conn.target)
      source == model.elements[si]
      target == model.elements[ti]
      curve == conn.curve
      dx == target.x - source.x
      dy == target.y - source.y
      l2 == dx * dx + dy * dy
      len == IF l2 = 0 \/ curve = 0 THEN 1 ELSE Isqrt(l2)
      \* the control point times 2 * len
      ctrlX == (source.x + target.x) * len - 2 * dy * curve
      ctrlY == (source.y + target.y) * len + 2 * dx * curve
  IN /\ si # 0 /\ ti # 0
     /\ l2 = 0 \/ curve = 0 \/ Isqrt(l2) * Isqrt(l2) = l2
     /\ rendered' = Some(
          [kind |-> "connection",
           source |-> source,
           target |-> target,
           sourceEdge |-> getEdgePoint(source,
                            Direction(ctrlX - 2 * len * source.x, ctrlY - 2 * len * source.y),
                            conn.sourceAnchor),
           targetEdge |-> getEdgePoint(target,
                            Direction(ctrlX - 2 * len * target.x, ctrlY - 2 * len * target.y),
                            conn.targetAnchor)])
     /\ UNCHANGED <<studioVars, viewVars, panVars, modeVars, clipboard, envVars, limitVars,
                    wheelEvents, storageVars, gesturePushes>>

RectTypes == {"variable", "stock", "flow"}
EdgeSizes == { [w |-> 0, h |-> 0], [w |-> 121, h |-> 61] }
\* Where the second node lies from the first at (0,0): on it, right of it,
\* below it, toward the corner of a default Stock, and elsewhere
EdgePositions == { [x |-> 0, y |-> 0], [x |-> 300, y |-> 0], [x |-> 0, y |-> 200],
                   [x |-> 100, y |-> 44], [x |-> 300, y |-> 200] }
EdgeCurves == { 0, POPUP_CURVE, -200 }

\* Two rectangular nodes joined by an edge in either direction
InitEdge ==
  /\ InitCommon
  /\ selectedElement = null
  /\ maxChanges = MaxChanges
  /\ maxNodes = MaxNodes
  /\ \E ta \in RectTypes, tb \in RectTypes, sa \in EdgeSizes, sb \in EdgeSizes,
        p \in EdgePositions, curve \in EdgeCurves, flip \in BOOLEAN :
       LET a == [id |-> ElementId(0, 0), type |-> ta, label |-> "X", x |-> 0, y |-> 0,
                 width |-> sa.w, height |-> sa.h]
           b == [id |-> ElementId(0, 1), type |-> tb, label |-> "X", x |-> p.x, y |-> p.y,
                 width |-> sb.w, height |-> sb.h]
       IN model = [elements |-> <<a, b>>,
                   connections |-> <<
                     [id |-> ConnId(0),
                      source |-> IF flip THEN b.id ELSE a.id,
                      target |-> IF flip THEN a.id ELSE b.id,
                      type |-> "positive", curve |-> curve,
                      sourceAnchor |-> "auto", targetAnchor |-> "auto"] >>]

\* The renderer runs; the next render starts from nothing
RenderDone ==
  /\ rendered # null
  /\ rendered' = null
  /\ UNCHANGED <<studioVars, viewVars, panVars, modeVars, clipboard, envVars, limitVars,
                 wheelEvents, storageVars, gesturePushes>>

NextEdge ==
  \/ \E k \in 1..Len(model.connections) : RenderConnection(k)
  \/ RenderDone

SpecEdge == InitEdge /\ [][NextEdge]_vars

\* The offset lies on the perimeter of the box of el
OnPerimeter(el, e) ==
  LET w == FInt(EdgePointDims(el).w)
      h == FInt(EdgePointDims(el).h)
  IN \/ FAbs(e.x) = w /\ FLeq(FAbs(e.y), h)
     \/ FAbs(e.y) = h /\ FLeq(FAbs(e.x), w)

\* The offset is t * dir for some t >= 0
OnRay(e, dir) ==
  /\ e.x.n * e.y.d * dir.y = e.y.n * e.x.d * dir.x
  /\ e.x.n * dir.x >= 0
  /\ e.y.n * dir.y >= 0
  /\ (dir.x = 0 /\ dir.y = 0) => (e.x.n = 0 /\ e.y.n = 0)

EdgeEnds(r) == { [el |-> r.source, edge |-> r.sourceEdge],
                 [el |-> r.target, edge |-> r.targetEdge] }

\* C20: the Auto-anchor edge point of a rectangular node lies on the
\* perimeter of the node's box and on the ray from the centre toward the
\* target, the node's own centre included.
C20_EdgePointOnRay ==
  rendered # null /\ rendered[1].kind = "connection" =>
    \A end \in EdgeEnds(rendered[1]) :
      end.edge.auto =>
        /\ OnPerimeter(end.el, end.edge.offset)
        /\ OnRay(end.edge.offset, end.edge.dir)

\* C20 amended: the edge point lies on the perimeter; for a target other than
\* the centre it lies on the ray toward the target, and for a target at the
\* centre it is the midpoint of the left side.
C20_EdgePointOnPerimeter ==
  rendered # null /\ rendered[1].kind = "connection" =>
    \A end \in EdgeEnds(rendered[1]) :
      end.edge.auto =>
        /\ OnPerimeter(end.el, end.edge.offset)
        /\ IF end.edge.dir = [x |-> 0, y |-> 0]
             THEN end.edge.offset = [x |-> FInt(-EdgePointDims(end.el).w), y |-> FInt(0)]
             ELSE OnRay(end.edge.offset, end.edge.dir)

\* An edge from a default Stock toward the exact corner direction has been
\* rendered: the edge point of the source is the corner (50, 22)
C20_Witness ==
  /\ rendered # null
  /\ rendered[1].kind = "connection"
  /\ rendered[1].source.type = "stock"
  /\ rendered[1].source.width = 0
  /\ rendered[1].sourceEdge.dir = [x |-> 25, y |-> 11]
  /\ rendered[1].sourceEdge.offset = [x |-> FInt(100), y |-> FInt(44)]

----------------------------------------------------------------------------
\* View transform.  The renderer draws canvas point c at
\* translate(pan) scale(zoom); the popup and the label editor are placed at
\* rect origin + pan + c * zoom.

FAdd(a, b) == Frac(a.n * b.d + b.n * a.d, a.d * b.d)

\* Variant: the pan is scaled with the point
ScreenCoord_ScaledPan(canvas, origin, panCoord, z) ==
  FAdd(FInt(origin), FMul(FAdd(panCoord, canvas), z))

\* The forward transform, one coordinate
ScreenCoord(canvas, origin, panCoord, z) ==
  FAdd(FAdd(FInt(origin), panCoord), FMul(canvas, z))

\* A screen point is taken to the canvas by screenToCanvas and drawn again
Project(p) ==
  LET cx == CanvasCoord(p.x, rect.left, pan.x, zoom)
      cy == CanvasCoord(p.y, rect.top, pan.y, zoom)
  IN /\ rendered' = Some([screen |-> p,
                          canvas |-> [x |-> cx, y |-> cy],
                          back |-> [x |-> ScreenCoord(cx, rect.left, pan.x, zoom),
                                    y |-> ScreenCoord(cy, rect.top, pan.y, zoom)]])
     /\ UNCHANGED <<studioVars, viewVars, panVars, modeVars, clipboard, envVars, limitVars,
                    wheelEvents, storageVars, gesturePushes>>

InitView == InitWheel

NextView ==
  \/ \E p \in WheelPoints, deltaY \in WheelDeltas : WheelZoom(p, deltaY)
  \/ \E deltaY \in WheelDeltas : WheelScroll(0, deltaY)
  \/ \E p \in WheelPoints : Project(p)

SpecView == InitView /\ [][NextView]_vars

\* C21: for every pan, every zoom within the limits and every screen point,
\* screenToCanvas followed by the forward view transform
\* (rect origin + pan + canvas * zoom) gives the screen point back.
C21_RoundTrip ==
  rendered # null =>
    /\ rendered[1].back.x = FInt(rendered[1].screen.x)
    /\ rendered[1].back.y = FInt(rendered[1].screen.y)

\* At zoom 0.9 and pan (40,30) the screen point (55,30) is the canvas point
\* (50/3, 0)
C21_Witness ==
  /\ rendered # null
  /\ zoom = [n |-> 9, d |-> 10]
  /\ pan = [x |-> FInt(40), y |-> FInt(30)]
  /\ rendered[1].screen = [x |-> 55, y |-> 30]
  /\ rendered[1].canvas = [x |-> [n |-> 50, d |-> 3], y |-> FInt(0)]

----------------------------------------------------------------------------
\* Pointer-down while the connection-type popup is open

\* A mousedown handler of the canvas runs
PointerDown ==
  \/ \E p \in Points, button \in {0, 1} : PanStart(p, button)
  \/ \E p \in Points : ElementMouseDown(p)
  \/ \E i \in 1..Len(model.elements), p \in Points : EdgeDragStart(i, p)
  \/ \E i \in 1..Len(model.elements), corner \in Corners, p \in Points :
       ResizeStart(i, corner, p)
  \/ \E k \in 1..Len(model.connections) : ConnectionMouseDown(k)
  \/ \E k \in 1..Len(model.connections), endpoint \in {"source", "target"}, p \in Points :
       EndpointDragStart(k, endpoint, p)

\* C22: while the connection-type popup is open, a pointer-down outside the
\* popup closes it and does nothing else: no pan, drag, curve drag, endpoint
\* drag, connection drawing or resize starts and the selection is unchanged.
C22_PointerDownClosesPopup ==
  [][(connectionPopup # null /\ PointerDown) =>
       /\ connectionPopup' = null
       /\ UNCHANGED <<isPanning, dragging, draggingCurve, draggingEndpoint,
                      drawingConnection, resizing, selectedElement>>
    ]_vars

----------------------------------------------------------------------------
\* Click suppression after a pan

\* C23: the click suppression after a pan is one-shot.  A background click
\* that finds the flag set is ignored (no deselection, no placement, no popup
\* close) and clears the flag; the end of a pan sets the flag when the
\* pointer moved during the pan and leaves the next background click to be
\* handled normally (flag clear) when it did not.
C23_SuppressionOneShot ==
  [][/\ (justPanned /\ \E p \in Points : CanvasClick(p)) =>
          /\ ~justPanned'
          /\ UNCHANGED <<studioVars, connectionPopup>>
     /\ (isPanning /\ HandleMouseUp) => (justPanned' = didPanMove)
    ]_vars

----------------------------------------------------------------------------
\* History cursor

\* C24: the history cursor points at an existing snapshot:
\* -1 <= historyIndex <= history.length - 1, and when the history is not
\* empty history[historyIndex] is the snapshot of the current diagram.
C24_CursorValid ==
  /\ -1 <= historyIndex
  /\ historyIndex <= Len(history) - 1
  /\ history # <<>> =>
       /\ historyIndex >= 0
       /\ JSONparse(history[historyIndex + 1]) = model

----------------------------------------------------------------------------
\* Undo

\* C25: undo brings back the diagram as it was before the most recent
\* change.  After a load and exactly one change undo is available and the
\* snapshot it restores is the loaded diagram; undo never reads a history
\* entry that does not exist.
C25_UndoRestoresPrevious ==
  [][/\ changes' = 1 =>
          /\ historyIndex' > 0
          /\ JSONparse(history'[historyIndex']) = InitModel
     /\ Undo => historyIndex <= Len(history)
    ]_vars

----------------------------------------------------------------------------
\* Undo and redo

\* C26: undo and redo are inverse, and a new change discards what could be
\* redone.  After an undo, redo is applicable and brings back the diagram and
\* the historyIndex of before the undo; a change made while something can be
\* redone leaves historyIndex = history.length - 1 and a history that is the
\* part up to the cursor followed by the new snapshot.
C26_UndoRedoInverse ==
  [][/\ Undo =>
          /\ historyIndex' < Len(history') - 1
          /\ historyIndex' + 1 = historyIndex
          /\ JSONparse(history'[historyIndex' + 2]) = model
     /\ (historyIndex >= 0 /\ historyIndex < Len(history) - 1 /\ changes' > changes) =>
          /\ historyIndex' = Len(history') - 1
          /\ history' = Append(SliceTo(history, historyIndex + 1), JSONstringify(model'))
    ]_vars

----------------------------------------------------------------------------
\* Drop target

\* Node el qualifies as a target for the reference point (x, y)
Qualifies(el, selfId, x, y) ==
  el.id # selfId /\ Abs(el.x - x) < DROP_DX /\ Abs(el.y - y) < DROP_DY

Dist2(el, x, y) == (el.x - x) * (el.x - x) + (el.y - y) * (el.y - y)

\* target is the id of a qualifying node of m nearest to (x, y), or null when
\* no node of m qualifies
NearestQualifying(m, selfId, x, y, target) ==
  LET Q == { el \in Elems(m) : Qualifies(el, selfId, x, y) } IN
  IF Q = {} THEN target = null
  ELSE /\ target # null
       /\ \E el \in Q : /\ el.id = target[1]
                        /\ \A other \in Q : Dist2(el, x, y) <= Dist2(other, x, y)

\* C27: a pointer-move of a node drag or of connection drawing sets
\* dragTarget to the qualifying node (another node whose centre is strictly
\* within 60 x 40 of the reference point) nearest to the reference point,
\* and to null exactly when no node qualifies.
C27_NearestTarget ==
  [][\A p \in Points :
       (MouseMove(p) /\ ~isPanning /\ draggingEndpoint = null) =>
         LET c == ScreenToCanvas(p.x, p.y) IN
         IF drawingConnection # null
           THEN NearestQualifying(model, drawingConnection[1].sourceId, c.x, c.y, dragTarget')
         ELSE IF dragging # null
           THEN NearestQualifying(model, dragging[1].id, c.x - dragging[1].offsetX,
                                  c.y - dragging[1].offsetY, dragTarget')
         ELSE TRUE
    ]_vars

----------------------------------------------------------------------------
\* Node drag

MaxDragChanges == 3   \* onModelChange calls per run of SpecDrag

\* Nodes copied with the panel button and dragged, starting from the first
\* node selected
InitDrag ==
  /\ InitCommon
  /\ model = InitModel
  /\ selectedElement = NodeSelection(InitModel.elements[1])
  /\ maxChanges = MaxDragChanges
  /\ maxNodes = MaxDragChanges + 2

NextDrag ==
  \/ PointerFree /\ DuplicateButton
  \/ PointerFree /\ \E p \in Points : ElementMouseDown(p)
  \/ \E p \in Points : MouseMove(p)
  \/ MouseUp

SpecDrag == InitDrag /\ [][NextDrag]_vars

\* C28: a pointer-move of a node drag puts the dragged node at the canvas
\* position of the pointer minus the offset captured at pointer-down (so a
\* move to the pointer-down position puts it where it was at pointer-down)
\* and changes nothing else: every other node, every edge and the other
\* fields of the dragged node are as before.
C28_DragMovesOnlyNode ==
  [][\A p \in Points :
       (dragging # null /\ MouseMove(p)) =>
         LET c == ScreenToCanvas(p.x, p.y)
             g == dragging[1]
             d == ElementIndex(model, g.id)
         IN /\ Len(model'.elements) = Len(model.elements)
            /\ model'.connections = model.connections
            /\ \A i \in 1..Len(model.elements) :
                 IF i = d
                   THEN /\ model'.elements[i] =
                             [model.elements[i] EXCEPT !.x = c.x - g.offsetX,
                                                       !.y = c.y - g.offsetY]
                        /\ (c.x = g.startX + g.offsetX /\ c.y = g.startY + g.offsetY) =>
                             (model'.elements[i].x = g.startX /\
                              model'.elements[i].y = g.startY)
                   ELSE model'.elements[i] = model.elements[i]
    ]_vars

----------------------------------------------------------------------------
\* Endpoint drag

MaxEndpointChanges == 3   \* onModelChange calls per run of SpecEndpoint

\* Edges drawn between the two nodes of a diagram that starts without edges,
\* selected, and re-anchored by dragging their endpoint handles
InitEndpoint ==
  /\ InitCommon
  /\ model = [InitModel EXCEPT !.connections = <<>>]
  /\ selectedElement = NodeSelection(InitModel.elements[1])
  /\ maxChanges = MaxEndpointChanges
  /\ maxNodes = MaxNodes

NextEndpoint ==
  \/ PointerFree /\ \E i \in 1..Len(model.elements), p \in Points : EdgeDragStart(i, p)
  \/ PointerFree /\ \E type \in ConnTypes : CreateConnection(type)
  \/ PointerFree /\ \E k \in 1..Len(model.connections) : ConnectionClick(k)
  \/ PointerFree /\ \E k \in 1..Len(model.connections), endpoint \in {"source", "target"},
                      p \in Points : EndpointDragStart(k, endpoint, p)
  \/ \E p \in Points : MouseMove(p)
  \/ MouseUp

SpecEndpoint == InitEndpoint /\ [][NextEndpoint]_vars

\* C29: the pointer-moves of an endpoint drag leave the diagram unchanged;
\* the pointer-up sets the anchor of the dragged end (sourceAnchor or
\* targetAnchor) of the dragged edge to the side of the node at that end
\* closest to the last pointer position, one of top/bottom/left/right,
\* leaves the rest of that edge, all other edges and all nodes unchanged,
\* and clears draggingEndpoint.
C29_EndpointSnap ==
  [][/\ (draggingEndpoint # null /\ \E p \in Points : MouseMove(p)) => model' = model
     /\ (draggingEndpoint # null /\ HandleMouseUp) =>
          LET de == draggingEndpoint[1]
              k == ConnIndex(model, de.connId)
              conn == model.connections[k]
              i == ElementIndex(model, IF de.endpoint = "source" THEN conn.source
                                                                 ELSE conn.target)
              side == getClosestAnchor(model.elements[i], de.x, de.y)
          IN /\ draggingEndpoint' = null
             /\ k # 0 /\ i # 0
             /\ side \in {"top", "bottom", "left", "right"}
             /\ model'.elements = model.elements
             /\ Len(model'.connections) = Len(model.connections)
             /\ \A j \in 1..Len(model.connections) :
                  IF j = k
                    THEN model'.connections[j] =
                           IF de.endpoint = "source"
                             THEN [conn EXCEPT !.sourceAnchor = side]
                             ELSE [conn EXCEPT !.targetAnchor = side]
                    ELSE model'.connections[j] = model.connections[j]
    ]_vars

----------------------------------------------------------------------------
\* Selection during a curve drag

\* C30: a pointer-down on the hit path of an edge starts the curve drag of
\* that edge and selects it in the same event, so that during a curve drag
\* the selection is the edge being dragged.
C30_CurveDragSelects ==
  draggingCurve # null =>
    /\ selectedElement # null
    /\ selectedElement[1].elementType = "edge"
    /\ selectedElement[1].id = draggingCurve[1].id

----------------------------------------------------------------------------
\* Resize

MaxResizeChanges == 3   \* onModelChange calls per run of SpecResize

\* Pointer positions of SpecResize: (85,60) is on the south-east handle of a
\* copy at (30,30), (55,30) on the one of the node at (0,0)
ResizePoints == Points \cup { [x |-> 85, y |-> 60] }

\* Nodes copied with the panel button, selected and resized, starting from
\* the first node selected
InitResize ==
  /\ InitCommon
  /\ model = InitModel
  /\ selectedElement = NodeSelection(InitModel.elements[1])
  /\ maxChanges = MaxResizeChanges
  /\ maxNodes = MaxResizeChanges + 2

NextResize ==
  \/ PointerFree /\ DuplicateButton
  \/ PointerFree /\ \E p \in ResizePoints : ElementMouseDown(p)
  \/ PointerFree /\ \E i \in 1..Len(model.elements), corner \in Corners, p \in ResizePoints :
       ResizeStart(i, corner, p)
  \/ \E p \in ResizePoints : MouseMove(p)
  \/ MouseUp

SpecResize == InitResize /\ [][NextResize]_vars

\* C31: a resize starts from the node's size (explicit, else the default of
\* its type); each pointer-move of the resize commits
\* width = max(60, startWidth +/- 2 deltaX) (+ east, - west) and
\* height = max(30, startHeight +/- 2 deltaY) (+ south, - north), with delta
\* the pointer's canvas position minus the one at resize start, and leaves
\* the node's centre, every other node and every edge unchanged.
C31_ResizeMove ==
  [][/\ \A i \in 1..Len(model.elements), corner \in Corners, p \in ResizePoints :
          ResizeStart(i, corner, p) =>
            /\ resizing'[1].startWidth = RenderDims(model.elements[i]).w
            /\ resizing'[1].startHeight = RenderDims(model.elements[i]).h
     /\ \A p \in ResizePoints :
          (resizing # null /\ MouseMove(p)) =>
            LET c == ScreenToCanvas(p.x, p.y)
                r == resizing[1]
                d == ElementIndex(model, r.id)
                deltaX == c.x - r.startX
                deltaY == c.y - r.startY
                w == IF r.corner \in {"se", "ne"} THEN Max(60, r.startWidth + 2 * deltaX)
                                                  ELSE Max(60, r.startWidth - 2 * deltaX)
                h == IF r.corner \in {"se", "sw"} THEN Max(30, r.startHeight + 2 * deltaY)
                                                  ELSE Max(30, r.startHeight - 2 * deltaY)
            IN /\ Len(model'.elements) = Len(model.elements)
               /\ model'.connections = model.connections
               /\ \A j \in 1..Len(model.elements) :
                    IF j = d
                      THEN /\ model'.elements[j] =
                                [model.elements[j] EXCEPT !.width = w, !.height = h]
                           /\ model'.elements[j].width >= 60
                           /\ model'.elements[j].height >= 30
                      ELSE model'.elements[j] = model.elements[j]
    ]_vars

----------------------------------------------------------------------------
\* Paste and duplicate

\* The step appended exactly one node, a copy of `from` with a fresh id and
\* moved by (dx, dy), selected it, and left every node and edge that existed
\* as it was
AddedCopy(from, dx, dy) ==
  LET n == Len(model.elements)
      new == model'.elements[n + 1]
  IN /\ Len(model'.elements) = n + 1
     /\ SubSeq(model'.elements, 1, n) = model.elements
     /\ model'.connections = model.connections
     /\ new.id \notin NodeIds(model)
     /\ new = [from EXCEPT !.id = new.id, !.x = from.x + dx, !.y = from.y + dy]
     /\ selectedElement' = NodeSelection(new)

----------------------------------------------------------------------------
\* Control point of an edge.  Coordinates are fractions; the control point is
\* computed when len is an integer.

\* `Math.sqrt(dx * dx + dy * dy) || 1`
CtrlLen(dx, dy) == IF dx * dx + dy * dy = 0 THEN 1 ELSE Isqrt(dx * dx + dy * dy)

\* ctrlX, ctrlY of renderConnection (offsets 0) and of generateSVGContent
\* (offsets of the document), from the end nodes' centres
ControlPoint(source, target, curve, offsetX, offsetY) ==
  LET sx == FAdd(FInt(source.x), offsetX)
      sy == FAdd(FInt(source.y), offsetY)
      tx == FAdd(FInt(target.x), offsetX)
      ty == FAdd(FInt(target.y), offsetY)
      dx == FSub(tx, sx).n
      dy == FSub(ty, sy).n
      len == CtrlLen(dx, dy)
      perpX == Frac(-dy, len)
      perpY == Frac(dx, len)
      midX == FDiv(FAdd(sx, tx), FInt(2))
      midY == FDiv(FAdd(sy, ty), FInt(2))
  IN [x |-> FAdd(midX, FMul(perpX, FInt(curve))),
      y |-> FAdd(midY, FMul(perpY, FInt(curve)))]

\* Edge k is drawn on the canvas and in the exported document
RenderControl(k) ==
  LET conn == model.connections[k]
      si == ElementIndex(model, conn.source)
      ti == ElementIndex(model, conn.target)
      source == model.elements[si]
      target == model.elements[ti]
      dx == target.x - source.x
      dy == target.y - source.y
      doc == generateSVGContent(model)[1]
      offsetX == Frac(doc.offsetX2, 2)
      offsetY == Frac(doc.offsetY2, 2)
  IN /\ si # 0 /\ ti # 0
     /\ CtrlLen(dx, dy) * CtrlLen(dx, dy) = Max(1, dx * dx + dy * dy)
     /\ rendered' = Some(
          [kind |-> "control",
           curve |-> conn.curve,
           coincident |-> (dx = 0 /\ dy = 0),
           mid |-> [x |-> Frac(source.x + target.x, 2), y |-> Frac(source.y + target.y, 2)],
           offset |-> [x |-> offsetX, y |-> offsetY],
           canvas |-> ControlPoint(source, target, conn.curve, FInt(0), FInt(0)),
           export |-> ControlPoint(source, target, conn.curve, offsetX, offsetY)])
     /\ UNCHANGED <<studioVars, viewVars, panVars, modeVars, clipboard, envVars, limitVars,
                    wheelEvents, storageVars, gesturePushes>>

NextControl ==
  \/ \E k \in 1..Len(model.connections) : RenderControl(k)
  \/ RenderDone

SpecControl == InitEdge /\ [][NextControl]_vars

\* C33: when the centres of an edge's end nodes coincide, the control point
\* is the midpoint displaced by the curve along a fixed default direction, so
\* that it differs from the midpoint when the curve is not 0; the canvas and
\* the export compute the same control point (up to the document's offset).
C33_DegenerateControl ==
  (rendered # null /\ rendered[1].kind = "control" /\ rendered[1].coincident) =>
    /\ rendered[1].curve # 0 => rendered[1].canvas # rendered[1].mid
    /\ rendered[1].export = [x |-> FAdd(rendered[1].canvas.x, rendered[1].offset.x),
                             y |-> FAdd(rendered[1].canvas.y, rendered[1].offset.y)]

----------------------------------------------------------------------------
\* The label editor: double-click on a node, Enter or blur, Escape, on a
\* diagram with a third node of any kind and with copies made by the
\* Duplicate button, for both values of the readOnly prop. A press on a
\* button takes the focus from the editor first, so the button acts only
\* when the editor is closed.

MaxLabelChanges == 3  \* onModelChange calls per run of SpecLabel

ThirdNode(type) ==
  [id |-> ElementId(0, 2), type |-> type, label |-> "Third",
   x |-> 150, y |-> 100, width |-> 0, height |-> 0]

InitLabel ==
  /\ InitSession
  /\ InitStorageIdle
  /\ pan = [x |-> 0, y |-> 0]
  /\ zoom = [n |-> 1, d |-> 1]
  /\ readOnly \in BOOLEAN
  /\ \E type \in {"variable", "cloud", "loop_r", "loop_b"} :
       /\ model = AddElement(InitModel, ThirdNode(type))
       /\ selectedElement = NodeSelection(InitModel.elements[1])
  /\ maxChanges = MaxLabelChanges
  /\ maxNodes = MaxLabelChanges + 3

NextLabel ==
  \/ editingLabel = null /\ DuplicateButton
  \/ \E i \in 1..Len(model.elements) : ElementDoubleClick(i)
  \/ \E l \in Labels : LabelSave(l)
  \/ LabelEscape

SpecLabel == InitLabel /\ [][NextLabel]_vars

\* C34: label editing starts only on a node that is neither a cloud nor a loop
\* marker and only when the canvas is not read-only; while it lasts the diagram
\* does not change; Enter or blur sets the label of the edited node to the
\* typed text and changes nothing else in the diagram; Escape leaves the
\* diagram as it was; all three clear editingLabel.
C34_LabelEditing ==
  [][/\ (editingLabel' # null /\ editingLabel' # editingLabel) =>
          /\ ~readOnly
          /\ \E i \in 1..Len(model.elements) :
               /\ model.elements[i].id = editingLabel'[1].id
               /\ model.elements[i].type \notin {"loop_r", "loop_b", "cloud"}
     /\ (editingLabel # null /\ editingLabel' # null) => model' = model
     /\ \A l \in Labels :
          LabelSave(l) =>
            /\ editingLabel' = null
            /\ \E i \in 1..Len(model.elements) :
                 /\ model.elements[i].id = editingLabel[1].id
                 /\ model' = [model EXCEPT !.elements[i].label = l]
     /\ LabelEscape => (editingLabel' = null /\ model' = model)
    ]_vars

----------------------------------------------------------------------------
\* Pointer gestures with a second mouse button: while a gesture of the left
\* button is in progress the middle button can be pressed on the background,
\* which handlePanStart accepts whatever else is active, or on a node, where
\* handleElementMouseDown does not look at the button either.

MaxGestureChanges == 2  \* onModelChange calls per run of SpecGesture

\* The pointer is at p and holds the dragged node: the node follows the
\* pointer at the offset captured by handleElementMouseDown
PointerHoldsNode(p) ==
  /\ dragging # null
  /\ ElementIndex(model, dragging[1].id) # 0
  /\ LET c == ScreenToCanvas(p.x, p.y)
         el == model.elements[ElementIndex(model, dragging[1].id)]
     IN /\ c.x = el.x + dragging[1].offsetX
        /\ c.y = el.y + dragging[1].offsetY

InitGesture ==
  /\ InitCommon
  /\ model = InitModel
  /\ selectedElement \in {NodeSelection(InitModel.elements[1]),
                          EdgeSelection(InitModel.connections[1])}
  /\ maxChanges = MaxGestureChanges
  /\ maxNodes = MaxNodes

NextGesture ==
  \/ PointerFree /\ \E p \in Points : ElementMouseDown(p)
  \/ PointerFree /\ \E i \in 1..Len(model.elements), p \in Points : EdgeDragStart(i, p)
  \/ PointerFree /\ \E i \in 1..Len(model.elements), corner \in Corners, p \in Points :
       ResizeStart(i, corner, p)
  \/ PointerFree /\ \E k \in 1..Len(model.connections) : ConnectionMouseDown(k)
  \/ PointerFree /\ \E k \in 1..Len(model.connections), endpoint \in {"source", "target"},
                      p \in Points : EndpointDragStart(k, endpoint, p)
  \/ PointerFree /\ \E p \in Points : PanStart(p, 0)
  \/ ~isPanning /\ \E p \in Points : PanStart(p, 1)
  \/ \E p \in Points : PointerHoldsNode(p) /\ ElementMouseDown(p)
  \/ \E p \in Points : MouseMove(p)
  \/ MouseUp
  \/ MouseLeave
  \/ PointerFree /\ \E type \in ConnTypes : CreateConnection(type)

SpecGesture == InitGesture /\ [][NextGesture]_vars

\* C35: right after every pointer-up and every mouse-leave of the canvas none
\* of isPanning, dragging, draggingCurve, drawingConnection, draggingEndpoint
\* and resizing is active and dragTarget is null.
C35_PointerUpEndsGesture ==
  [][(MouseUp \/ MouseLeave) =>
       /\ ~isPanning'
       /\ dragging' = null
       /\ draggingCurve' = null
       /\ drawingConnection' = null
       /\ draggingEndpoint' = null
       /\ resizing' = null
       /\ dragTarget' = null]_vars

----------------------------------------------------------------------------
\* Plain clicks after an earlier pan

\* C36: a background click whose own pointer-down / pointer-up gesture had no
\* movement (didPanMoveRef is false when the click arrives) is never ignored:
\* it does not find the suppress flag set, whatever gesture came before it,
\* a pan ended by mouse-leave included.
C36_PlainClickHandled ==
  [][\A p \in Points :
       (~didPanMove /\ ~isPanning /\ CanvasClick(p)) => ~justPanned]_vars

----------------------------------------------------------------------------
\* The canvas under both values of the readOnly prop: pointer gestures,
\* background click and double-click, the context menu and the keyboard
\* shortcuts of the canvas.

MaxReadOnlyChanges == 2  \* onModelChange calls per run of SpecReadOnly

\* Two of the types offered by the context menu
ContextTypes == {"variable", "cloud"}

\* handleContextMenu followed by handleContextAdd: a right-click anywhere on
\* the container, then a button of the menu that opened
ContextAdd(p, type) ==
  /\ HandleAddElement(ScreenToCanvas(p.x, p.y), Some(type))
  /\ UNCHANGED <<selectedElement, viewVars, panVars, modeVars, clipboard, runVars,
                 gesturePushes>>

InitReadOnly ==
  /\ InitSession
  /\ InitStorageIdle
  /\ pan = [x |-> 0, y |-> 0]
  /\ zoom = [n |-> 1, d |-> 1]
  /\ readOnly \in BOOLEAN
  /\ model = InitModel
  /\ selectedElement = null
  /\ maxChanges = MaxReadOnlyChanges
  /\ maxNodes = MaxNodes

NextReadOnly ==
  \/ PointerFree /\ \E p \in Points : ElementMouseDown(p)
  \/ PointerFree /\ \E k \in 1..Len(model.connections) : ConnectionMouseDown(k)
  \/ PointerFree /\ \E k \in 1..Len(model.connections) : ConnectionClick(k)
  \/ PointerFree /\ \E p \in Points : PanStart(p, 0)
  \/ \E p \in Points : MouseMove(p)
  \/ MouseUp
  \/ MouseLeave
  \/ PointerFree /\ \E p \in Points : CanvasClick(p)
  \/ PointerFree /\ \E p \in Points : CanvasDoubleClick(p)
  \/ PointerFree /\ \E p \in Points, type \in ContextTypes : ContextAdd(p, type)
  \/ KeyDelete({"canvas"})
  \/ KeyCopy
  \/ KeyPaste
  \/ KeyDuplicate

SpecReadOnly == InitReadOnly /\ [][NextReadOnly]_vars

----------------------------------------------------------------------------
\* Zoom controls: ctrl/meta wheel, zoomIn, zoomOut, resetZoom and
\* fitToContent, on the two-node diagram and on one whose second node has
\* been moved far to the right.  pan and zoom are fractions as in SpecWheel.

ZOOM_STEP == [n |-> 5, d |-> 4]    \* 1.25
FIT_MAX == [n |-> 2, d |-> 1]
FIT_PADDING == 50
FIT_HALF_W == 60
FIT_HALF_H == 30
FarX == 27880         \* x of the node moved far to the right

WideModel ==
  [InitModel EXCEPT !.elements[2].x = FarX, !.elements[2].y = 0]

\* zoomIn
ZoomIn ==
  /\ zoom' = FMin(ZOOM_MAX, FMul(zoom, ZOOM_STEP))
  /\ InView(zoom')
  /\ UNCHANGED <<studioVars, pan, panVars, modeVars, clipboard, envVars, runVars,
                 gesturePushes>>

\* zoomOut
ZoomOut ==
  /\ zoom' = FMax(ZOOM_MIN, FDiv(zoom, ZOOM_STEP))
  /\ InView(zoom')
  /\ UNCHANGED <<studioVars, pan, panVars, modeVars, clipboard, envVars, runVars,
                 gesturePushes>>

\* resetZoom
ResetZoom ==
  /\ zoom' = FInt(1)
  /\ pan' = [x |-> FInt(0), y |-> FInt(0)]
  /\ UNCHANGED <<studioVars, panVars, modeVars, clipboard, envVars, runVars,
                 gesturePushes>>

\* The least and the greatest of a non-empty set of numbers
Least(S) == CHOOSE v \in S : \A w \in S : v <= w
Greatest(S) == CHOOSE v \in S : \A w \in S : v >= w

\* The bounding box of fitToContent: every node counts as 120 x 60
FitBox(m) ==
  LET xs == { m.elements[i].x : i \in 1..Len(m.elements) }
      ys == { m.elements[i].y : i \in 1..Len(m.elements) }
  IN [minX |-> Least(xs) - FIT_HALF_W, maxX |-> Greatest(xs) + FIT_HALF_W,
      minY |-> Least(ys) - FIT_HALF_H, maxY |-> Greatest(ys) + FIT_HALF_H]

\* newZoom of fitToContent
FitZoom(m) ==
  LET b == FitBox(m)
      scaleX == Frac(rect.width - FIT_PADDING * 2, b.maxX - b.minX)
      scaleY == Frac(rect.height - FIT_PADDING * 2, b.maxY - b.minY)
  IN FMin(FMin(scaleX, scaleY), FIT_MAX)

\* fitToContent
FitToContent ==
  LET b == FitBox(model)
      newZoom == FitZoom(model)
      centerX == Frac(b.minX + b.maxX, 2)
      centerY == Frac(b.minY + b.maxY, 2)
  IN /\ Len(model.elements) > 0
     /\ zoom' = newZoom
     /\ pan' = [x |-> FSub(Frac(rect.width, 2), FMul(centerX, newZoom)),
                y |-> FSub(Frac(rect.height, 2), FMul(centerY, newZoom))]
     /\ UNCHANGED <<studioVars, panVars, modeVars, clipboard, envVars, runVars,
                    gesturePushes>>

InitZoom ==
  /\ InitRest
  /\ InitStorageIdle
  /\ model \in {InitModel, WideModel}
  /\ selectedElement = null
  /\ maxChanges = MaxChanges
  /\ maxNodes = MaxNodes
  /\ pan = [x |-> FInt(0), y |-> FInt(0)]
  /\ zoom = FInt(1)

NextZoom ==
  \/ \E p \in WheelPoints, deltaY \in WheelDeltas : WheelZoom(p, deltaY)
  \/ ZoomIn
  \/ ZoomOut
  \/ ResetZoom
  \/ FitToContent

SpecZoom == InitZoom /\ [][NextZoom]_vars

\* C38: the zoom level stays in range, 0.05 <= zoom <= 5, in every reachable
\* state.
C38_ZoomInRange ==
  /\ FLeq(ZOOM_MIN, zoom)
  /\ FLeq(zoom, ZOOM_MAX)

----------------------------------------------------------------------------
\* Self-loops

\* C39: the type popup never names one node as both ends, and no edge of the
\* diagram joins a node to itself.
C39_NoSelfLoop ==
  /\ connectionPopup # null => connectionPopup[1].sourceId # connectionPopup[1].targetId
  /\ \A k \in 1..Len(model.connections) :
       model.connections[k].source # model.connections[k].target

----------------------------------------------------------------------------
\* Selection

\* C40: the selection is null or names a node or an edge of the current
\* diagram.
C40_SelectionInDiagram ==
  selectedElement # null =>
    selectedElement[1].id \in NodeIds(model) \cup ConnIds(model)

====
